---------------------------- MODULE Spec2Model ----------------------------
(***************************************************************************)
(* Model of the image loading and caching subsystem of the annotator:      *)
(*   libs/image_cache.py        ImageCacheItem, ImageCacheManager           *)
(*   libs/async_image_loader.py LoadTask, AsyncImageLoader                  *)
(*   libs/memory_manager.py     MemoryPool, MemoryManager                   *)
(*                                                                         *)
(* The specifications share the variables; the main ones are:              *)
(*   Spec        the cache driven by one caller, every call atomic         *)
(*   SpecRace    the cache driven by two threads, statement by statement   *)
(*   SpecLoader  the loader, its executor and its worker threads           *)
(*   SpecLocks   the loader and its workers, mutex by mutex                *)
(*   SpecMonitor the memory monitor, statement group by statement group    *)
(*   SpecPool    a MemoryPool                                              *)
(***************************************************************************)
EXTENDS Integers, Sequences, FiniteSets, TLC

(***************************************************************************)
(* Bounds of the model.                                                    *)
(***************************************************************************)
\* every call advances the clock by one; no call is made at MaxTime
MaxTime == 4
\* the same, for the single rewritten file of SpecStale
StaleTime == 5
\* the same, for the five-image browsing session of SpecBrowse
BrowseTime == 6

\* size units per megabyte: the code divides a byte count by 1024 * 1024, an
\* exact operation on floats, so a byte total and a limit in megabytes compare
\* as integers once the limit is scaled (image_cache.py:169, 226, 238)
UnitsPerMB == 2

\* the paths the callers of Spec use
Paths == {"a", "b"}
\* the five images of a browsing session: a, b, c, d, e
BrowsePaths == {"a", "b", "c", "d", "e"}
AllPaths == Paths \cup BrowsePaths
\* the valid images a caller may hand over, and the null image
Images == {"v1", "v2"}
NullImage == "null"
\* file sizes, in size units
FileSizes == {1, 2, 3}
\* the values max_items and max_memory_mb are configured with
ItemLimits == {1, 2}
MemoryLimitsMB == {1, 2}

VARIABLES
    \* the file system
    files,
    \* ImageCacheManager
    cache, current_memory, max_memory_mb, max_items, stats,
    \* the clock read by time.time()
    now,
    \* what the last call returned
    ret,
    \* the threads of SpecRace: the statement each is at, the locals of its
    \* call, and the holder of ImageCacheManager.mutex
    pc, frame, mutex,
    \* the holder of AsyncImageLoader.mutex
    loader_mutex,
    \* AsyncImageLoader
    loading_futures, tasks, work_queue, task_queue, total_tasks, completed_tasks,
    signals, loader_stats, load_ret, max_workers,
    \* the ThreadPoolExecutor: whether shutdown has been called on it, and the
    \* call of the owning thread that waits in executor.shutdown(wait=True)
    executor,
    \* the call of load_images_batch or preload_images the owning thread is in
    batch,
    \* MemoryManager: its fields, the statement its handler is at, and the
    \* calls its cleanup callbacks have received in the current pass
    manager, monitor, callback_log,
    \* a MemoryPool: its free list, its cap, and the number of objects its
    \* factory has made
    memory_pool

cacheVars == <<cache, current_memory, max_memory_mb, max_items, stats>>

threadVars == <<pc, frame, mutex, loader_mutex>>

loaderVars == <<loading_futures, tasks, work_queue, task_queue, total_tasks,
                completed_tasks, signals, loader_stats, load_ret, max_workers,
                executor, batch>>

memVars == <<manager, monitor, callback_log, memory_pool>>

vars == <<files, cache, current_memory, max_memory_mb, max_items, stats, now, ret,
          pc, frame, mutex, loader_mutex,
          loading_futures, tasks, work_queue, task_queue, total_tasks,
          completed_tasks, signals, loader_stats, load_ret, max_workers, executor,
          batch, manager, monitor, callback_log, memory_pool>>

(***************************************************************************)
(* The file system.                                                        *)
(***************************************************************************)
\* the size a file has when the program starts
InitialSize(p) == CASE p = "a" -> 1 [] p = "b" -> 2 [] p = "c" -> 3 [] p = "d" -> 1 [] OTHER -> 2

\* os.path.exists
Exists(p) == files[p].exists

\* os.path.getsize
GetSize(p) == files[p].size

(***************************************************************************)
(* ImageCacheItem                                                          *)
(***************************************************************************)
\* _compute_hash: md5 of "path_mtime_size", taken as injective; "" (here the
\* empty tuple) when os.stat raises
ComputeHash(p) ==
    IF files[p].exists THEN <<p, files[p].mtime, files[p].size>> ELSE <<>>

\* ImageCacheItem.__init__
NewItem(p, image, pixmap, file_size, last_access) ==
    [image_path |-> p, image |-> image, pixmap |-> pixmap,
     file_size |-> file_size, last_access |-> last_access,
     access_count |-> 1, file_hash |-> ComputeHash(p)]

\* mutant: the access is timed but not counted
TouchOnly(item, t) == [item EXCEPT !.last_access = t]
\* ImageCacheItem.update_access
UpdateAccess(item, t) ==
    [item EXCEPT !.last_access = t, !.access_count = @ + 1]

(***************************************************************************)
(* ImageCacheManager: the OrderedDict is a sequence, oldest entry first.   *)
(***************************************************************************)
Keys(c) == {c[i].image_path : i \in 1..Len(c)}

IndexOf(c, p) == CHOOSE i \in 1..Len(c) : c[i].image_path = p

Item(c, p) == c[IndexOf(c, p)]

\* del cache[p]
Delete(c, p) == SelectSeq(c, LAMBDA e : e.image_path # p)

\* cache.move_to_end(p) followed by the update of the item
MoveToEnd(c, p, item) == Append(Delete(c, p), item)

\* mutant: the newest key is taken for the oldest
NewestKey(c) == c[Len(c)].image_path
\* next(iter(cache))
OldestKey(c) == c[1].image_path

\* the cache, its byte total and the evictions counter, as the private
\* methods change them together
CacheState(c, mem, ev) == [cache |-> c, mem |-> mem, evictions |-> ev]

\* mutant: the size of the entry is not taken off the byte total
RemoveItemKeepsBytes(st, p) ==
    IF p \in Keys(st.cache)
    THEN CacheState(Delete(st.cache, p), st.mem, st.evictions + 1)
    ELSE st
\* _remove_item
RemoveItem(st, p) ==
    IF p \in Keys(st.cache)
    THEN CacheState(Delete(st.cache, p),
                    st.mem - Item(st.cache, p).file_size,
                    st.evictions + 1)
    ELSE st

\* _cleanup_cache, first loop
RECURSIVE CleanupItems(_, _)
CleanupItems(st, limit) ==
    IF Len(st.cache) > limit
    THEN CleanupItems(RemoveItem(st, OldestKey(st.cache)), limit)
    ELSE st

\* _cleanup_cache, second loop
RECURSIVE CleanupMemory(_, _)
CleanupMemory(st, limit_mb) ==
    IF st.mem > limit_mb * UnitsPerMB /\ Len(st.cache) > 1
    THEN CleanupMemory(RemoveItem(st, OldestKey(st.cache)), limit_mb)
    ELSE st

\* mutant: the memory loop is forgotten
CleanupItemsOnly(st, items, mb) == CleanupItems(st, items)
\* _cleanup_cache
CleanupCache(st, items, mb) == CleanupMemory(CleanupItems(st, items), mb)

Current == CacheState(cache, current_memory, stats.evictions)

\* write a CacheState back to the fields
Store(st) ==
    /\ cache' = st.cache
    /\ current_memory' = st.mem
    /\ stats' = [stats EXCEPT !.evictions = st.evictions]

\* time passes with every call
Tick == now' = now + 1
Before(t) == now < t

\* a call made by a single caller, run as one step
Atomic(t, Call) == Before(t) /\ Call /\ UNCHANGED <<threadVars, loaderVars, memVars>>

\* what a call returns, as a tuple: None, a boolean, or an (image, pixmap) pair
None == <<>>
Bool(b) == IF b THEN <<"True">> ELSE <<"False">>
Return(v) == ret' = v
\* an integer that a call returns
Count(n) == <<"int", n>>

\* mutant: the fingerprint is not compared
HashAlwaysMatches(p) == TRUE
\* get_image: current_hash == item.file_hash
HashMatches(p) == ComputeHash(p) = Item(cache, p).file_hash

\* get_image
GetImage(p) ==
    /\ Tick
    /\ IF ~Exists(p)
       THEN /\ Return(None)
            /\ UNCHANGED cacheVars
       ELSE IF p \in Keys(cache) /\ HashMatches(p)
       THEN /\ cache' = MoveToEnd(cache, p, UpdateAccess(Item(cache, p), now'))
            /\ stats' = [stats EXCEPT !.hits = @ + 1]
            /\ Return(<<Item(cache, p).image, Item(cache, p).pixmap>>)
            /\ UNCHANGED <<current_memory, max_memory_mb, max_items>>
       ELSE LET st == RemoveItem(Current, p)
            IN  /\ cache' = st.cache
                /\ current_memory' = st.mem
                /\ stats' = [stats EXCEPT !.evictions = st.evictions,
                                          !.misses = @ + 1]
                /\ Return(None)
                /\ UNCHANGED <<max_memory_mb, max_items>>
    /\ UNCHANGED files

\* mutant: the entry is added and the byte total is left as it is
PutImageKeepsTotal(p, image, pixmap) ==
    /\ Tick
    /\ IF image = NullImage \/ ~Exists(p)
       THEN UNCHANGED cacheVars
       ELSE LET item == NewItem(p, image, pixmap, GetSize(p), now')
                st0 == RemoveItem(Current, p)
                st1 == CacheState(Append(st0.cache, item), st0.mem, st0.evictions)
            IN  /\ Store(CleanupCache(st1, max_items, max_memory_mb))
                /\ UNCHANGED <<max_memory_mb, max_items>>
    /\ Return(None)
    /\ UNCHANGED files
\* put_image
PutImage(p, image, pixmap) ==
    /\ Tick
    /\ IF image = NullImage \/ ~Exists(p)
       THEN UNCHANGED cacheVars
       ELSE LET item == NewItem(p, image, pixmap, GetSize(p), now')
                st0 == RemoveItem(Current, p)
                st1 == CacheState(Append(st0.cache, item),
                                  st0.mem + item.file_size, st0.evictions)
            IN  /\ Store(CleanupCache(st1, max_items, max_memory_mb))
                /\ UNCHANGED <<max_memory_mb, max_items>>
    /\ Return(None)
    /\ UNCHANGED files

\* is_cached
IsCached(p) ==
    /\ Tick
    /\ Return(Bool(p \in Keys(cache)))
    /\ UNCHANGED <<files, cacheVars>>

\* mutant: the statistics are reset with the cache
ClearCacheAndStats ==
    /\ Tick
    /\ cache' = <<>>
    /\ current_memory' = 0
    /\ stats' = [hits |-> 0, misses |-> 0, evictions |-> 0, preloaded |-> 0]
    /\ Return(None)
    /\ UNCHANGED <<files, max_memory_mb, max_items>>
\* clear_cache: the counter is raised by len(cache) after the clear
ClearCache ==
    /\ Tick
    /\ cache' = <<>>
    /\ current_memory' = 0
    /\ stats' = [stats EXCEPT !.evictions = @ + Len(cache')]
    /\ Return(None)
    /\ UNCHANGED <<files, max_memory_mb, max_items>>

\* mutant: the limit is stored and the cache is left as it is
SetMemoryLimitLater(mb) ==
    /\ Tick
    /\ max_memory_mb' = mb
    /\ Return(None)
    /\ UNCHANGED <<files, cache, current_memory, stats, max_items>>
\* set_memory_limit
SetMemoryLimit(mb) ==
    /\ Tick
    /\ max_memory_mb' = mb
    /\ Store(CleanupCache(Current, max_items, mb))
    /\ Return(None)
    /\ UNCHANGED <<files, max_items>>

\* set_max_items
SetMaxItems(n) ==
    /\ Tick
    /\ max_items' = n
    /\ Store(CleanupCache(Current, n, max_memory_mb))
    /\ Return(None)
    /\ UNCHANGED <<files, max_memory_mb>>

\* another program changes the file: a rewrite of the same length changes its
\* modification time, a change of length that restores the time changes its
\* size, and a file that was deleted comes back with a later time
ModifyFile(p, size) ==
    /\ Tick
    /\ files' = [files EXCEPT ![p] =
                    IF ~@.exists \/ size = @.size
                    THEN [exists |-> TRUE, size |-> size, mtime |-> @.mtime + 1]
                    ELSE [@ EXCEPT !.size = size]]
    /\ UNCHANGED <<cacheVars, ret>>

\* another program deletes the file
DeleteFile(p) ==
    /\ Tick
    /\ files[p].exists
    /\ files' = [files EXCEPT ![p].exists = FALSE]
    /\ UNCHANGED <<cacheVars, ret>>

Threads == {"t1", "t2"}

NoFrame == [op |-> "none", key |-> "", item |-> <<>>, size |-> 0, cont |-> "", raised |-> FALSE]

\* no thread is inside the cache
InitThreads ==
    /\ pc = [t \in Threads |-> "idle"]
    /\ frame = [t \in Threads |-> NoFrame]
    /\ mutex = "free"
    /\ loader_mutex = "free"

\* the monitor at rest; calls counts the timeouts of the timer and the calls
\* of force_cleanup made so far, caught the exceptions of cleanup callbacks
\* that an except clause has caught
NoPass == [pc |-> "idle", cont |-> "", i |-> 0, rss |-> 0, previous_rss |-> 0,
           freed |-> 0, calls |-> 0, raised |-> FALSE, caught |-> 0]

\* no MemoryPool of its own has been constructed
NoPool == [pool |-> <<>>, max_size |-> 0, made |-> 0]

\* MemoryManager.__init__; memory_freed_mb is counted in tenths of a MB
InitManagerFields ==
    /\ manager = [warning_threshold_mb |-> 800, critical_threshold_mb |-> 1200,
                  last_memory_check |-> 0, check_interval |-> 5,
                  last_gc_time |-> 0, gc_interval |-> 30,
                  image_pool |-> 5, pixmap_pool |-> 5,
                  cleanup_callbacks |-> <<>>,
                  is_monitoring |-> TRUE, emergency_mode |-> FALSE,
                  stats |-> [peak_memory_mb |-> 0, gc_count |-> 0,
                             memory_freed_mb |-> 0],
                  signals |-> [memoryWarning |-> 0, memoryCritical |-> 0,
                               memoryFreed |-> 0, gcRequested |-> 0]]
    /\ monitor = NoPass
    /\ callback_log = <<>>

\* the manager, and no MemoryPool besides its own two
InitManager ==
    /\ InitManagerFields
    /\ memory_pool = NoPool

\* self.loading_futures = {}
NoFutures == [p \in {} |-> 0]

\* the owning thread is in no call of load_images_batch or preload_images
NoBatch ==
    [op |-> "none", image_paths |-> <<>>, i |-> 0, priority |-> 0,
     added_count |-> 0, requested |-> <<>>, args |-> <<>>]

\* ThreadPoolExecutor(max_workers=max_workers)
NewExecutor == [shutdown |-> FALSE, waiting |-> "none", max_workers |-> 0]

\* AsyncImageLoader.__init__
InitLoaderFields ==
    /\ loading_futures = NoFutures
    /\ tasks = <<>>
    /\ work_queue = <<>>
    /\ task_queue = <<>>
    /\ total_tasks = 0
    /\ completed_tasks = 0
    /\ signals = [imageLoaded |-> 0, imageLoadFailed |-> 0, allImagesLoaded |-> 0]
    /\ loader_stats = [total_loaded |-> 0, total_failed |-> 0, cache_hits |-> 0]
    /\ load_ret = None
    /\ executor = NewExecutor
    /\ batch = NoBatch

\* ImageCacheManager.__init__
Init ==
    /\ InitThreads
    /\ InitLoaderFields
    /\ InitManager
    /\ max_workers = 4
    /\ files = [p \in AllPaths |-> [exists |-> TRUE, size |-> InitialSize(p), mtime |-> 0]]
    /\ cache = <<>>
    /\ current_memory = 0
    /\ max_memory_mb \in MemoryLimitsMB
    /\ max_items \in ItemLimits
    /\ stats = [hits |-> 0, misses |-> 0, evictions |-> 0, preloaded |-> 0]
    /\ now = 0
    /\ ret = None

Next ==
    \/ \E p \in Paths : Atomic(MaxTime, GetImage(p))
    \/ \E p \in Paths, i \in Images \cup {NullImage} : Atomic(MaxTime, PutImage(p, i, i))
    \/ \E p \in Paths : Atomic(MaxTime, IsCached(p))
    \/ Atomic(MaxTime, ClearCache)
    \/ \E mb \in MemoryLimitsMB : Atomic(MaxTime, SetMemoryLimit(mb))
    \/ \E n \in ItemLimits : Atomic(MaxTime, SetMaxItems(n))
    \/ \E p \in Paths, s \in FileSizes : Atomic(MaxTime, ModifyFile(p, s))
    \/ \E p \in Paths : Atomic(MaxTime, DeleteFile(p))

Spec == Init /\ [][Next]_vars

(***************************************************************************)
(* SpecStale: one cached file that another program keeps changing.         *)
(***************************************************************************)
StalePath == "a"

NextStale ==
    \/ \E i \in Images \cup {NullImage} : Atomic(StaleTime, PutImage(StalePath, i, i))
    \/ Atomic(StaleTime, GetImage(StalePath))
    \/ \E s \in FileSizes : Atomic(StaleTime, ModifyFile(StalePath, s))
    \/ Atomic(StaleTime, DeleteFile(StalePath))

SpecStale == Init /\ [][NextStale]_vars

(***************************************************************************)
(* SpecBrowse: a browsing session over five small images with the cache    *)
(* of the integration tests, ImageCacheManager(max_memory_mb=10,           *)
(* max_items=3).                                                           *)
(***************************************************************************)
BrowseMaxItems == 3
BrowseMaxMemoryMB == 10

InitBrowse ==
    /\ InitThreads
    /\ InitLoaderFields
    /\ InitManager
    /\ max_workers = 4
    /\ files = [p \in AllPaths |-> [exists |-> TRUE, size |-> 1, mtime |-> 0]]
    /\ cache = <<>>
    /\ current_memory = 0
    /\ max_memory_mb = BrowseMaxMemoryMB
    /\ max_items = BrowseMaxItems
    /\ stats = [hits |-> 0, misses |-> 0, evictions |-> 0, preloaded |-> 0]
    /\ now = 0
    /\ ret = None

NextBrowse ==
    \/ \E p \in BrowsePaths : Atomic(BrowseTime, PutImage(p, "v1", "v1"))
    \/ \E p \in BrowsePaths : Atomic(BrowseTime, GetImage(p))
    \/ \E p \in BrowsePaths : Atomic(BrowseTime, IsCached(p))

SpecBrowse == InitBrowse /\ [][NextBrowse]_vars

(***************************************************************************)
(* SpecRace: two threads call put_image, set_max_items and                 *)
(* set_memory_limit.  A thread runs its call one statement at a time;      *)
(* QMutexLocker(self.mutex) is taken where the code takes it.              *)
(***************************************************************************)
\* calls started in SpecRace
RaceTime == 3

Goto(t, label) == pc' = [pc EXCEPT ![t] = label]

\* an exception leaves the call: the QMutexLocker releases the mutex
Raise(t) ==
    /\ pc' = [pc EXCEPT ![t] = "idle"]
    /\ frame' = [frame EXCEPT ![t].raised = TRUE]
    /\ mutex' = IF mutex = t THEN "free" ELSE mutex

\* put_image, up to the QMutexLocker
CallPutImage(t, p, image, pixmap) ==
    /\ pc[t] = "idle"
    /\ Before(RaceTime)
    /\ Tick
    /\ IF image = NullImage \/ ~Exists(p)
       THEN UNCHANGED <<pc, frame>>
       ELSE /\ frame' = [frame EXCEPT ![t] =
                   [NoFrame EXCEPT !.op = "put", !.key = p,
                       !.item = NewItem(p, image, pixmap, GetSize(p), now')]]
            /\ Goto(t, "put_lock")
    /\ UNCHANGED <<files, cacheVars, ret, mutex>>

\* put_image: with QMutexLocker(self.mutex)
PutLock(t) ==
    /\ pc[t] = "put_lock"
    /\ mutex = "free"
    /\ mutex' = t
    /\ Goto(t, "put_check")
    /\ UNCHANGED <<files, cacheVars, now, ret, frame>>

\* put_image: if image_path in self.cache: self._remove_item(image_path)
PutCheck(t) ==
    /\ pc[t] = "put_check"
    /\ IF frame[t].key \in Keys(cache)
       THEN /\ frame' = [frame EXCEPT ![t].cont = "put_add"]
            /\ Goto(t, "rm_check")
       ELSE /\ Goto(t, "put_add")
            /\ UNCHANGED frame
    /\ UNCHANGED <<files, cacheVars, now, ret, mutex>>

\* put_image: self.cache[image_path] = item
PutAdd(t) ==
    /\ pc[t] = "put_add"
    /\ cache' = IF frame[t].key \in Keys(cache)
                THEN [cache EXCEPT ![IndexOf(cache, frame[t].key)] = frame[t].item]
                ELSE Append(cache, frame[t].item)
    /\ Goto(t, "put_mem")
    /\ UNCHANGED <<files, current_memory, max_memory_mb, max_items, stats, now, ret,
                   frame, mutex>>

\* put_image: self.current_memory_mb += file_size / (1024 * 1024)
PutMem(t) ==
    /\ pc[t] = "put_mem"
    /\ current_memory' = current_memory + frame[t].item.file_size
    /\ Goto(t, "cl_items")
    /\ UNCHANGED <<files, cache, max_memory_mb, max_items, stats, now, ret, frame, mutex>>

\* put_image: the end of the with block
PutUnlock(t) ==
    /\ pc[t] = "put_unlock"
    /\ mutex' = IF mutex = t THEN "free" ELSE mutex
    /\ Goto(t, "idle")
    /\ UNCHANGED <<files, cacheVars, now, ret, frame>>

\* set_max_items: self.max_items = max_items
CallSetMaxItems(t, n) ==
    /\ pc[t] = "idle"
    /\ Before(RaceTime)
    /\ Tick
    /\ max_items' = n
    /\ frame' = [frame EXCEPT ![t] = [NoFrame EXCEPT !.op = "set_max_items"]]
    /\ Goto(t, "cl_items")
    /\ UNCHANGED <<files, cache, current_memory, max_memory_mb, stats, ret, mutex>>

\* set_memory_limit: self.max_memory_mb = max_memory_mb
CallSetMemoryLimit(t, mb) ==
    /\ pc[t] = "idle"
    /\ Before(RaceTime)
    /\ Tick
    /\ max_memory_mb' = mb
    /\ frame' = [frame EXCEPT ![t] = [NoFrame EXCEPT !.op = "set_memory_limit"]]
    /\ Goto(t, "cl_items")
    /\ UNCHANGED <<files, cache, current_memory, max_items, stats, ret, mutex>>

\* _cleanup_cache: while len(self.cache) > self.max_items: oldest_key = ...
CleanupItemsStep(t) ==
    /\ pc[t] = "cl_items"
    /\ IF Len(cache) > max_items
       THEN /\ frame' = [frame EXCEPT ![t].key = OldestKey(cache), ![t].cont = "cl_items"]
            /\ Goto(t, "rm_check")
       ELSE /\ Goto(t, "cl_mem")
            /\ UNCHANGED frame
    /\ UNCHANGED <<files, cacheVars, now, ret, mutex>>

\* _cleanup_cache: while current_memory_mb > max_memory_mb and len > 1: ...
CleanupMemoryStep(t) ==
    /\ pc[t] = "cl_mem"
    /\ IF current_memory > max_memory_mb * UnitsPerMB /\ Len(cache) > 1
       THEN /\ frame' = [frame EXCEPT ![t].key = OldestKey(cache), ![t].cont = "cl_mem"]
            /\ Goto(t, "rm_check")
       ELSE /\ Goto(t, IF frame[t].op = "put" THEN "put_unlock" ELSE "idle")
            /\ UNCHANGED frame
    /\ UNCHANGED <<files, cacheVars, now, ret, mutex>>

\* _remove_item: if image_path in self.cache
RemoveCheck(t) ==
    /\ pc[t] = "rm_check"
    /\ Goto(t, IF frame[t].key \in Keys(cache) THEN "rm_read" ELSE frame[t].cont)
    /\ UNCHANGED <<files, cacheVars, now, ret, frame, mutex>>

\* _remove_item: item = self.cache[image_path]
RemoveRead(t) ==
    /\ pc[t] = "rm_read"
    /\ IF frame[t].key \in Keys(cache)
       THEN /\ frame' = [frame EXCEPT ![t].size = Item(cache, frame[t].key).file_size]
            /\ Goto(t, "rm_sub")
            /\ UNCHANGED mutex
       ELSE Raise(t)
    /\ UNCHANGED <<files, cacheVars, now, ret>>

\* _remove_item: self.current_memory_mb -= item.file_size / (1024 * 1024)
RemoveSubtract(t) ==
    /\ pc[t] = "rm_sub"
    /\ current_memory' = current_memory - frame[t].size
    /\ Goto(t, "rm_del")
    /\ UNCHANGED <<files, cache, max_memory_mb, max_items, stats, now, ret, frame, mutex>>

\* _remove_item: del self.cache[image_path]
RemoveDelete(t) ==
    /\ pc[t] = "rm_del"
    /\ IF frame[t].key \in Keys(cache)
       THEN /\ cache' = Delete(cache, frame[t].key)
            /\ Goto(t, "rm_count")
            /\ UNCHANGED <<frame, mutex>>
       ELSE /\ Raise(t)
            /\ UNCHANGED cache
    /\ UNCHANGED <<files, current_memory, max_memory_mb, max_items, stats, now, ret>>

\* _remove_item: self.stats['evictions'] += 1
RemoveCount(t) ==
    /\ pc[t] = "rm_count"
    /\ stats' = [stats EXCEPT !.evictions = @ + 1]
    /\ Goto(t, frame[t].cont)
    /\ UNCHANGED <<files, cache, current_memory, max_memory_mb, max_items, now, ret,
                   frame, mutex>>

RaceStep(Statement) == Statement /\ UNCHANGED <<loaderVars, memVars, loader_mutex>>

NextRace ==
    \/ \E t \in Threads, p \in Paths, i \in Images : RaceStep(CallPutImage(t, p, i, i))
    \/ \E t \in Threads : RaceStep(PutLock(t))
    \/ \E t \in Threads : RaceStep(PutCheck(t))
    \/ \E t \in Threads : RaceStep(PutAdd(t))
    \/ \E t \in Threads : RaceStep(PutMem(t))
    \/ \E t \in Threads : RaceStep(PutUnlock(t))
    \/ \E t \in Threads, n \in ItemLimits : RaceStep(CallSetMaxItems(t, n))
    \/ \E t \in Threads, mb \in MemoryLimitsMB : RaceStep(CallSetMemoryLimit(t, mb))
    \/ \E t \in Threads : RaceStep(CleanupItemsStep(t))
    \/ \E t \in Threads : RaceStep(CleanupMemoryStep(t))
    \/ \E t \in Threads : RaceStep(RemoveCheck(t))
    \/ \E t \in Threads : RaceStep(RemoveRead(t))
    \/ \E t \in Threads : RaceStep(RemoveSubtract(t))
    \/ \E t \in Threads : RaceStep(RemoveDelete(t))
    \/ \E t \in Threads : RaceStep(RemoveCount(t))

SpecRace == Init /\ [][NextRace]_vars

(***************************************************************************)
(* Properties of the cache.                                                *)
(***************************************************************************)
RECURSIVE SumSizes(_)
SumSizes(c) == IF c = <<>> THEN 0 ELSE Head(c).file_size + SumSizes(Tail(c))

PathsOf(c) == [i \in 1..Len(c) |-> c[i].image_path]

LimitUnits == max_memory_mb * UnitsPerMB

\* C1: after every call the cache holds at most max_items entries, and the
\* sizes of its entries add up to at most the memory limit unless it holds a
\* single entry.
C1_CacheWithinLimits ==
    /\ Len(cache) <= max_items
    /\ SumSizes(cache) <= LimitUnits \/ Len(cache) = 1

\* a put has just evicted older entries and left one entry above the limit
C1_Witness ==
    /\ Len(cache) = 1
    /\ cache[1].last_access = now
    /\ cache[1].access_count = 1
    /\ SumSizes(cache) > LimitUnits
    /\ stats.evictions >= 2

\* the entries a step removes are older than every entry it keeps
EvictsOldest ==
    \A q \in Keys(cache) \ Keys(cache') : \A i \in 1..Len(cache') :
        Item(cache, q).last_access < cache'[i].last_access

\* the cache is ordered by the time of the last put or hit
RecencyOrdered ==
    \A i, j \in 1..Len(cache) : i < j => cache[i].last_access < cache[j].last_access

BrowseStep(before, after, Call) ==
    (PathsOf(cache) = before /\ Call) => PathsOf(cache') = after

Stale(p) ==
    /\ p \in Keys(cache)
    /\ Exists(p)
    /\ ComputeHash(p) # Item(cache, p).file_hash

\* C3: a get of an entry whose file has changed since the put returns a miss
\* and removes the entry; a put stores the image it is given under the
\* file's fingerprint, and a hit returns the image of the entry, so that the
\* get after the second put returns the second image.
C3_StaleRoundTrip ==
    [][\A p \in {StalePath} :
        /\ (Stale(p) /\ GetImage(p)) => (ret' = None /\ p \notin Keys(cache'))
        /\ \A i \in Images :
              (Exists(p) /\ PutImage(p, i, i)) =>
                  /\ p \in Keys(cache')
                  /\ Item(cache', p).image = i
                  /\ Item(cache', p).file_hash = ComputeHash(p)
        /\ (GetImage(p) /\ ret' # None) =>
              /\ ~Stale(p)
              /\ ret' = <<Item(cache, p).image, Item(cache, p).pixmap>>]_vars

\* put(P, v1), change of the file, get(P), put(P, v2), get(P): the last get
\* has returned v2
C3_Witness ==
    /\ now = 5
    /\ ret = <<"v2", "v2">>
    /\ files[StalePath] # [exists |-> TRUE, size |-> InitialSize(StalePath), mtime |-> 0]
    /\ PathsOf(cache) = <<StalePath>>
    /\ cache[1].image = "v2" /\ cache[1].access_count = 2 /\ cache[1].last_access = 5
    /\ stats = [hits |-> 1, misses |-> 1, evictions |-> 1, preloaded |-> 0]

\* C5: every statement that changes the ordered map or the byte total runs
\* under the cache mutex, so calls are serialized and no entry is removed, or
\* subtracted from the byte total, twice: whenever no call is in progress
\* the byte total is the sum of the sizes of the entries, and no call has
\* ended in a KeyError for an entry that another thread removed.
C5_NoDoubleRemoval ==
    (\A t \in Threads : pc[t] = "idle") =>
        /\ current_memory = SumSizes(cache)
        /\ \A t \in Threads : ~frame[t].raised

(***************************************************************************)
(* AsyncImageLoader.  A load task is a record of the LoadTask, of its      *)
(* Future and of what its worker has done so far; tasks are named by their *)
(* position in the sequence tasks.  The executor is a ThreadPoolExecutor:  *)
(* a first-in first-out queue of work items, served by max_workers         *)
(* threads.  Calls of the loader's interface run as one step each (they    *)
(* hold the loader's mutex); a worker runs in three steps: it takes a work *)
(* item, runs the try block, runs the finally block.                       *)
(***************************************************************************)
LoaderTime == 4
MaxTasks == 3

LoaderPaths == {"a", "b", "c"}
WorkerCounts == {1, 2}

\* the priority each path is asked with: the files are asked for in the
\* order a, b, c with priorities 10, 0, 5
RequestPriority(p) == CASE p = "a" -> 10 [] p = "b" -> 0 [] OTHER -> 5

\* the names the module imports from QtCore do not include QSize
QSizeImported == FALSE

EnabledFormats == {".jpg", ".jpeg", ".png", ".bmp", ".gif", ".tif", ".tiff", ".webp"}
MaxImageSizeMB == 50

\* os.path.splitext(image_path)[1]
Extension(p) == CASE p = "d" -> ".JPG" [] p = "e" -> ".txt" [] OTHER -> ".jpg"

\* str.lower, on the extensions above
Lower(ext) == IF ext = ".JPG" THEN ".jpg" ELSE ext

\* _is_supported_format
IsSupportedFormat(p) == Lower(Extension(p)) \in EnabledFormats

\* QImageReader.read: a null image when the file cannot be read
Decode(p) == IF Exists(p) THEN "v1" ELSE NullImage

\* QPixmap.fromImage
FromImage(image) == image

\* LoadTask.__init__ and the Future that executor.submit returns; origin is
\* the call that made the task: "none" for a direct call of load_image
NewTask(p, priority, callback) ==
    [image_path |-> p, priority |-> priority, callback |-> callback,
     future |-> "PENDING", step |-> "queued", result |-> "none",
     cached |-> FALSE, callback_calls |-> 0, cancel_called |-> "never",
     retry_count |-> 0, max_retries |-> 3, origin |-> batch.op]

TaskIds == 1..Len(tasks)

\* mutant: the signal is not emitted
Silent(sig) == UNCHANGED signals
\* signal.emit()
Emit(sig) == signals' = [signals EXCEPT ![sig] = @ + 1]

\* path in self.loading_futures
InFlight(p) == p \in DOMAIN loading_futures

\* del self.loading_futures[path]
Forget(futures, p) == [q \in DOMAIN futures \ {p} |-> futures[q]]

\* Future.cancel: only a future that has not started is cancelled; the step
\* at which cancel was called is kept with the task
CancelFuture(task) ==
    [task EXCEPT !.future = IF @ = "PENDING" THEN "CANCELLED" ELSE @,
                 !.cancel_called = IF @ = "never" THEN task.step ELSE @]

\* a call of the loader that does not reach the cache
NoCacheCall == Tick /\ UNCHANGED <<files, cacheVars, ret>>

\* mutant: only the existence of the file is checked
RejectedIfMissing(p) == ~Exists(p)
\* load_image, lines 115-131: the checks made before the mutex is taken
Rejected(p) ==
    \/ ~Exists(p)
    \/ ~IsSupportedFormat(p)
    \/ GetSize(p) > MaxImageSizeMB * UnitsPerMB

\* what a call that ends in an exception gives its caller
Raised(exception) == <<exception>>

\* load_image; executor.submit raises RuntimeError once shutdown has been
\* called on the executor, after the task has been put into task_queue
LoadImage(p, priority, callback) ==
    IF Rejected(p)
    THEN /\ NoCacheCall
         /\ Emit("imageLoadFailed")
         /\ load_ret' = Bool(FALSE)
         /\ UNCHANGED <<loading_futures, tasks, work_queue, task_queue,
                        total_tasks, completed_tasks, loader_stats, max_workers,
                        executor>>
    ELSE IF InFlight(p)
    THEN /\ NoCacheCall
         /\ load_ret' = Bool(TRUE)
         /\ UNCHANGED <<loading_futures, tasks, work_queue, task_queue,
                        total_tasks, completed_tasks, signals, loader_stats,
                        max_workers, executor>>
    ELSE /\ GetImage(p)
         /\ IF ret' # None
            THEN /\ Emit("imageLoaded")
                 /\ loader_stats' = [loader_stats EXCEPT !.cache_hits = @ + 1]
                 /\ load_ret' = Bool(TRUE)
                 /\ UNCHANGED <<loading_futures, tasks, work_queue, task_queue,
                                total_tasks>>
            ELSE IF executor.shutdown
            THEN /\ Len(tasks) < MaxTasks
                 /\ tasks' = Append(tasks,
                        [NewTask(p, priority, callback) EXCEPT
                            !.future = "NONE", !.step = "unsubmitted"])
                 /\ task_queue' = Append(task_queue, Len(tasks) + 1)
                 /\ load_ret' = Raised("RuntimeError")
                 /\ UNCHANGED <<loading_futures, work_queue, total_tasks,
                                signals, loader_stats>>
            ELSE /\ Len(tasks) < MaxTasks
                 /\ tasks' = Append(tasks, NewTask(p, priority, callback))
                 /\ task_queue' = Append(task_queue, Len(tasks) + 1)
                 /\ work_queue' = Append(work_queue, Len(tasks) + 1)
                 /\ loading_futures' =
                        [q \in DOMAIN loading_futures \cup {p} |->
                            IF q = p THEN Len(tasks) + 1 ELSE loading_futures[q]]
                 /\ total_tasks' = total_tasks + 1
                 /\ load_ret' = Bool(TRUE)
                 /\ UNCHANGED <<signals, loader_stats>>
         /\ UNCHANGED <<completed_tasks, max_workers, executor>>

\* cancel_load
CancelLoad(p) ==
    /\ NoCacheCall
    /\ IF InFlight(p)
       THEN /\ tasks' = [tasks EXCEPT ![loading_futures[p]] = CancelFuture(@)]
            /\ loading_futures' = Forget(loading_futures, p)
            /\ load_ret' = Bool(TRUE)
       ELSE /\ load_ret' = Bool(FALSE)
            /\ UNCHANGED <<tasks, loading_futures>>
    /\ UNCHANGED <<work_queue, task_queue, total_tasks, completed_tasks,
                   signals, loader_stats, max_workers, executor>>

\* cancel_all_loads, as far as the fields of the loader go
CancelAll ==
    /\ NoCacheCall
    /\ tasks' = [id \in TaskIds |->
                    IF \E p \in DOMAIN loading_futures : loading_futures[p] = id
                    THEN CancelFuture(tasks[id])
                    ELSE tasks[id]]
    /\ loading_futures' = NoFutures
    /\ total_tasks' = 0
    /\ completed_tasks' = 0
    /\ load_ret' = None
    /\ UNCHANGED <<work_queue, task_queue, signals, loader_stats, max_workers>>

\* cancel_all_loads
CancelAllLoads == CancelAll /\ UNCHANGED executor

\* mutant: a worker thread that has run a task is lost
BusyForever == {id \in TaskIds : tasks[id].step \in {"body", "finally", "done"}}
\* the worker threads that are running a task
Busy == {id \in TaskIds : tasks[id].step \in {"body", "finally"}}

\* mutant: the worker runs a work item whatever the state of its future
NeverCancelled(task) == TRUE
\* Future.set_running_or_notify_cancel, as the executor's worker calls it
\* before it runs a work item
SetRunning(task) == task.future # "CANCELLED"

\* ThreadPoolExecutor: the work item that was submitted first
NextWorkItem(queue) == Head(queue)

\* a free worker thread takes the next work item and, unless its future was
\* cancelled, starts _load_image_worker on it
WorkerTake ==
    /\ work_queue # <<>>
    /\ Cardinality(Busy) < max_workers
    /\ LET id == NextWorkItem(work_queue)
       IN  /\ work_queue' = SelectSeq(work_queue, LAMBDA i : i # id)
           /\ tasks' = [tasks EXCEPT ![id] =
                  IF SetRunning(@)
                  THEN [@ EXCEPT !.step = "body",
                                 !.future = IF @ = "PENDING" THEN "RUNNING" ELSE @]
                  ELSE [@ EXCEPT !.step = "dropped"]]
    /\ UNCHANGED <<files, cacheVars, now, ret, threadVars, memVars, batch, loading_futures,
                   task_queue, total_tasks, completed_tasks, signals,
                   loader_stats, load_ret, max_workers, executor>>

\* _load_image_worker, the try block and its except clause
WorkerBody(id) ==
    /\ tasks[id].step = "body"
    /\ LET task == tasks[id]
           image == Decode(task.image_path)
       IN  IF ~QSizeImported
           THEN \* QSize(4096, 4096) raises NameError
                /\ Emit("imageLoadFailed")
                /\ tasks' = [tasks EXCEPT ![id].step = "finally",
                                          ![id].result = "failed"]
                /\ UNCHANGED <<files, cacheVars, now, ret, loader_stats>>
           ELSE IF image = NullImage
           THEN /\ tasks' = [tasks EXCEPT ![id].step = "finally",
                                          ![id].result = "null"]
                /\ UNCHANGED <<files, cacheVars, now, ret, signals, loader_stats>>
           ELSE /\ PutImage(task.image_path, image, FromImage(image))
                /\ Emit("imageLoaded")
                /\ tasks' = [tasks EXCEPT
                       ![id].step = "finally",
                       ![id].result = "loaded",
                       ![id].cached = TRUE,
                       ![id].callback_calls = IF task.callback THEN @ + 1 ELSE @]
                /\ loader_stats' = [loader_stats EXCEPT !.total_loaded = @ + 1]
    /\ UNCHANGED <<threadVars, memVars, batch, loading_futures, work_queue, task_queue,
                   total_tasks, completed_tasks, load_ret, max_workers, executor>>

\* _load_image_worker, the finally block; the future is then finished
WorkerFinally(id) ==
    /\ tasks[id].step = "finally"
    /\ loading_futures' = IF InFlight(tasks[id].image_path)
                          THEN Forget(loading_futures, tasks[id].image_path)
                          ELSE loading_futures
    /\ completed_tasks' = completed_tasks + 1
    /\ IF completed_tasks' >= total_tasks /\ total_tasks > 0
       THEN Emit("allImagesLoaded")
       ELSE UNCHANGED signals
    /\ tasks' = [tasks EXCEPT ![id].step = "done", ![id].future = "FINISHED"]
    /\ UNCHANGED <<files, cacheVars, now, ret, threadVars, memVars, batch, work_queue,
                   task_queue, total_tasks, loader_stats, load_ret, max_workers, executor>>

\* ThreadPoolExecutor.shutdown(wait=True) returns when every worker thread
\* has ended: the threads first run or drop what is left in the queue
Drained == work_queue = <<>> /\ Busy = {}

\* shutdown, up to the wait in executor.shutdown(wait=True); the timer it
\* stops is connected to _process_queue, which does nothing
Shutdown ==
    /\ CancelAll
    /\ executor' = [executor EXCEPT !.shutdown = TRUE, !.waiting = "shutdown"]

\* shutdown: executor.shutdown(wait=True) returns, and so does shutdown
ShutdownReturn ==
    /\ executor.waiting = "shutdown"
    /\ Drained
    /\ executor' = [executor EXCEPT !.waiting = "none"]
    /\ UNCHANGED <<files, cacheVars, now, ret, threadVars, memVars, batch,
                   loading_futures, tasks, work_queue, task_queue, total_tasks,
                   completed_tasks, signals, loader_stats, load_ret, max_workers>>

\* set_max_workers, up to the wait in executor.shutdown(wait=True).  The
\* variable max_workers is the number of threads of the executor in use:
\* self.max_workers, assigned at line 338, is read nowhere.
SetMaxWorkers(n) ==
    /\ NoCacheCall
    /\ executor' = [executor EXCEPT !.shutdown = TRUE,
                                    !.waiting = "set_max_workers",
                                    !.max_workers = n]
    /\ load_ret' = None
    /\ UNCHANGED <<loading_futures, tasks, work_queue, task_queue, total_tasks,
                   completed_tasks, signals, loader_stats, max_workers>>

\* set_max_workers: the wait is over, self.executor = ThreadPoolExecutor(...)
SetMaxWorkersReturn ==
    /\ executor.waiting = "set_max_workers"
    /\ Drained
    /\ max_workers' = executor.max_workers
    /\ executor' = NewExecutor
    /\ UNCHANGED <<files, cacheVars, now, ret, threadVars, memVars, batch,
                   loading_futures, tasks, work_queue, task_queue, total_tasks,
                   completed_tasks, signals, loader_stats, load_ret>>

Max(a, b) == IF a > b THEN a ELSE b
Min(a, b) == IF a < b THEN a ELSE b

\* range(a, b)
Range(a, b) == [k \in 1..Max(0, b - a) |-> a + k - 1]

\* image_paths[i], for an index of the list counted from 0
At(image_paths, i) == image_paths[i + 1]

\* mutant: the window ends one place early
PreloadPathsShort(image_paths, current_index, lookahead) ==
    LET start_idx == Max(0, current_index - lookahead)
        end_idx == Min(Len(image_paths), current_index + lookahead)
        indices == Range(start_idx, current_index) \o Range(current_index + 1, end_idx)
    IN  [k \in 1..Len(indices) |-> At(image_paths, indices[k])]
\* preload_images: the list preload_paths it builds
PreloadPaths(image_paths, current_index, lookahead) ==
    LET start_idx == Max(0, current_index - lookahead)
        end_idx == Min(Len(image_paths), current_index + lookahead + 1)
        indices == Range(start_idx, current_index) \o Range(current_index + 1, end_idx)
    IN  [k \in 1..Len(indices) |-> At(image_paths, indices[k])]

\* preload_images(..., priority=50)
PreloadPriority == 50

\* load_images_batch is entered: added_count = 0 and the loop is at i = 0;
\* op and args keep which call it is and what it was called with
EnterBatch(op, image_paths, priority, args) ==
    /\ batch.op = "none"
    /\ batch' = [op |-> op, image_paths |-> image_paths, i |-> 0,
                 priority |-> priority, added_count |-> 0, requested |-> <<>>,
                 args |-> args]
    /\ Tick
    /\ UNCHANGED <<files, cacheVars, ret, threadVars, memVars,
                   loading_futures, tasks, work_queue, task_queue, total_tasks,
                   completed_tasks, signals, loader_stats, load_ret,
                   max_workers, executor>>

\* load_images_batch(image_paths, priority), callback and metadata left out
LoadImagesBatch(image_paths, priority) ==
    EnterBatch("batch", image_paths, priority, <<image_paths, priority>>)

\* preload_images(image_paths, current_index, lookahead)
PreloadImages(image_paths, current_index, lookahead) ==
    EnterBatch("preload", PreloadPaths(image_paths, current_index, lookahead),
               PreloadPriority, <<image_paths, current_index, lookahead>>)

\* load_images_batch: one turn of the loop, load_image(image_path,
\* priority + i, callback, batch_metadata); requested keeps the calls made
BatchStep ==
    /\ batch.op # "none"
    /\ batch.i < Len(batch.image_paths)
    /\ LoadImage(At(batch.image_paths, batch.i), batch.priority + batch.i, FALSE)
    /\ batch' = [batch EXCEPT
           !.i = @ + 1,
           !.added_count = IF load_ret' = Bool(TRUE) THEN @ + 1 ELSE @,
           !.requested = Append(@, [image_path |-> At(batch.image_paths, batch.i),
                                    accepted |-> load_ret' = Bool(TRUE)])]
    /\ UNCHANGED <<threadVars, memVars>>

\* load_images_batch: return added_count
BatchReturn ==
    /\ batch.op # "none"
    /\ batch.i = Len(batch.image_paths)
    /\ load_ret' = Count(batch.added_count)
    /\ batch' = NoBatch
    /\ UNCHANGED <<files, cacheVars, now, ret, threadVars, memVars,
                   loading_futures, tasks, work_queue, task_queue, total_tasks,
                   completed_tasks, signals, loader_stats, max_workers, executor>>

\* a call of the loader's interface, by the thread that owns the loader
LoaderCall(Call) == Before(LoaderTime) /\ Call /\ UNCHANGED <<threadVars, memVars, batch>>

\* the cache is filled from elsewhere (ImageCacheManager._on_image_preloaded)
Preloaded(p) == Atomic(LoaderTime, PutImage(p, "v2", "v2"))

\* get_async_loader: the loader over a cache with the default limits
InitLoader ==
    /\ InitThreads
    /\ InitLoaderFields
    /\ InitManager
    /\ max_workers \in WorkerCounts
    /\ files = [p \in AllPaths |-> [exists |-> TRUE, mtime |-> 0, size |-> InitialSize(p)]]
    /\ cache = <<>>
    /\ current_memory = 0
    /\ max_memory_mb = 500
    /\ max_items = 100
    /\ stats = [hits |-> 0, misses |-> 0, evictions |-> 0, preloaded |-> 0]
    /\ now = 0
    /\ ret = None

NextLoader ==
    \/ \E p \in LoaderPaths : LoaderCall(LoadImage(p, RequestPriority(p), TRUE))
    \/ \E p \in LoaderPaths : LoaderCall(CancelLoad(p))
    \/ LoaderCall(CancelAllLoads)
    \/ \E p \in LoaderPaths : Preloaded(p)
    \/ WorkerTake
    \/ \E id \in TaskIds : WorkerBody(id)
    \/ \E id \in TaskIds : WorkerFinally(id)

SpecLoader == InitLoader /\ [][NextLoader]_vars

(***************************************************************************)
(* Properties of the loader                                                *)
(***************************************************************************)
Waiting == {id \in TaskIds : tasks[id].step = "queued" /\ tasks[id].future = "PENDING"}

Unfinished(p) ==
    {id \in TaskIds : tasks[id].image_path = p
                      /\ tasks[id].future \in {"PENDING", "RUNNING"}}

\* C4: tasks waiting for a worker are started in priority order, lowest
\* priority value first and ties in arrival order: a worker that starts a
\* task starts one that no other waiting task precedes.
C4_StartedInPriorityOrder ==
    [][\A id \in Waiting :
          tasks'[id].step = "body" =>
              \A other \in Waiting \ {id} :
                  \/ tasks[id].priority < tasks[other].priority
                  \/ tasks[id].priority = tasks[other].priority /\ id < other]_vars

\* C6: for every path, at most one load task is pending or executing at any
\* time, whatever the sequence of load_image, cancel_load, cancel_all_loads
\* and worker completions.
C6_OneTaskPerPath == \A p \in LoaderPaths : Cardinality(Unfinished(p)) <= 1

C8_CancelledWhileRunningIsCached ==
    \A id \in TaskIds :
        tasks[id].cancel_called = "body" /\ tasks[id].step = "done" =>
            /\ tasks[id].cached
            /\ tasks[id].callback_calls = 0

\* C9: allImagesLoaded fires exactly once each time the completed-task count
\* reaches the submitted-task count with a positive total, and at no other
\* step.
C9_DrainedFiresOnReaching ==
    [][IF completed_tasks' = completed_tasks + 1
          /\ completed_tasks' = total_tasks' /\ total_tasks' > 0
       THEN signals'.allImagesLoaded = signals.allImagesLoaded + 1
       ELSE signals'.allImagesLoaded = signals.allImagesLoaded]_vars

\* C10: for every load_image call accepted on a cache miss for a readable
\* image file and never cancelled, the worker decodes the file, writes the
\* pair into the cache and invokes the callback exactly once: once the
\* worker has finished, all of this has happened.
C10_FinishedTaskIsLoaded ==
    \A id \in TaskIds :
        tasks[id].step = "done" /\ tasks[id].cancel_called = "never" =>
            /\ tasks[id].result = "loaded"
            /\ tasks[id].cached
            /\ tasks[id].callback_calls = 1

(***************************************************************************)
(* The checks of load_image: next to a readable image "a", the files asked *)
(* for are one above max_image_size, one that does not exist and one whose *)
(* extension is not an image's.                                            *)
(***************************************************************************)
IntakeTime == 4

OversizedPath == "b"
MissingPath == "c"
TextPath == "e"
IntakePaths == {"a", OversizedPath, MissingPath, TextPath}

InitIntake ==
    /\ InitThreads
    /\ InitLoaderFields
    /\ InitManager
    /\ max_workers = 4
    /\ files = [p \in AllPaths |->
                  [exists |-> p # MissingPath, mtime |-> 0,
                   size |-> IF p = OversizedPath
                            THEN MaxImageSizeMB * UnitsPerMB + 1
                            ELSE InitialSize(p)]]
    /\ cache = <<>>
    /\ current_memory = 0
    /\ max_memory_mb = 500
    /\ max_items = 100
    /\ stats = [hits |-> 0, misses |-> 0, evictions |-> 0, preloaded |-> 0]
    /\ now = 0
    /\ ret = None

IntakeCall(Call) == Before(IntakeTime) /\ Call /\ UNCHANGED <<threadVars, memVars, batch>>

NextIntake ==
    \/ \E p \in IntakePaths : IntakeCall(LoadImage(p, RequestPriority(p), TRUE))
    \/ \E p \in IntakePaths : IntakeCall(CancelLoad(p))
    \/ \E p \in IntakePaths : Atomic(IntakeTime, PutImage(p, "v2", "v2"))
    \/ WorkerTake
    \/ \E id \in TaskIds : WorkerBody(id)
    \/ \E id \in TaskIds : WorkerFinally(id)

SpecIntake == InitIntake /\ [][NextIntake]_vars

\* the three reasons for which load_image turns a request down
Missing(p) == ~files[p].exists
Unsupported(p) == ~IsSupportedFormat(p)
Oversized(p) == files[p].size > 50 * UnitsPerMB

\* C11: load_image on a path that does not exist, has an extension outside
\* the supported set, or whose size exceeds max_image_size returns False,
\* emits imageLoadFailed exactly once, and leaves the in-flight set, the
\* pending queue, total_tasks and the cache unchanged.
C11_RejectedSynchronously ==
    [][\A p \in IntakePaths :
          (Missing(p) \/ Unsupported(p) \/ Oversized(p))
          /\ LoadImage(p, RequestPriority(p), TRUE) =>
              /\ load_ret' = Bool(FALSE)
              /\ signals' = [signals EXCEPT !.imageLoadFailed = @ + 1]
              /\ UNCHANGED <<loading_futures, tasks, work_queue, task_queue,
                             total_tasks, completed_tasks>>
              /\ UNCHANGED cacheVars]_vars

\* three requests have been turned down while the task of "a" waits for a
\* worker
C11_Witness ==
    /\ now = 4
    /\ load_ret = Bool(FALSE)
    /\ signals.imageLoadFailed = 3
    /\ Len(tasks) = 1 /\ tasks[1].step = "queued"
    /\ DOMAIN loading_futures = {"a"}
    /\ total_tasks = 1

\* the calls of callbacks made so far: task.callback(...) at line 269 is the
\* only call of a callback in the loader
RECURSIVE CallbackCalls(_)
CallbackCalls(ts) ==
    IF ts = <<>> THEN 0 ELSE Head(ts).callback_calls + CallbackCalls(Tail(ts))

\* the entry of the cache for p carries the fingerprint the file has now
CacheValid(p) ==
    /\ files[p].exists
    /\ p \in Keys(cache)
    /\ Item(cache, p).file_hash = <<p, files[p].mtime, files[p].size>>

\* C12: when load_image is called for a path whose cache entry is valid, the
\* supplied callback is invoked immediately, no worker task is scheduled
\* (in-flight set and total_tasks unchanged), and the loader's cache-hit
\* counter increases by exactly one.
C12_CacheHitInvokesCallback ==
    [][\A p \in LoaderPaths :
          CacheValid(p) /\ ~InFlight(p)
          /\ LoadImage(p, RequestPriority(p), TRUE) =>
              /\ CallbackCalls(tasks') = CallbackCalls(tasks) + 1
              /\ UNCHANGED <<loading_futures, total_tasks>>
              /\ loader_stats'.cache_hits = loader_stats.cache_hits + 1]_vars

C14_FailedTaskIsRetried ==
    \A id \in TaskIds :
        /\ tasks[id].step = "done"
        /\ tasks[id].result \in {"failed", "null"}
        /\ tasks[id].cancel_called = "never"
        /\ tasks[id].retry_count < tasks[id].max_retries
        => \E again \in TaskIds :
               /\ tasks[again].image_path = tasks[id].image_path
               /\ tasks[again].priority = tasks[id].priority
               /\ tasks[again].retry_count = tasks[id].retry_count + 1

(***************************************************************************)
(* The loader with its worker threads scheduled: a thread of the pool that *)
(* can take a work item, or go on with the task it runs, does so.          *)
(***************************************************************************)
SpecLoaderFair ==
    /\ InitLoader
    /\ [][NextLoader]_vars
    /\ WF_vars(WorkerTake)
    /\ WF_vars(\E id \in TaskIds : WorkerBody(id))
    /\ WF_vars(\E id \in TaskIds : WorkerFinally(id))

\* C15: a failing task never disables the pool: the finally block of a
\* worker, whatever the outcome, removes the task's path from the in-flight
\* set and increments completed_tasks exactly once, and every task that
\* waits for a worker is eventually taken from the queue and, unless it was
\* cancelled, run to its end.
C15_FailureLeavesPoolWorking ==
    /\ [][\A id \in TaskIds :
             tasks[id].step = "finally" /\ tasks'[id].step # "finally" =>
                 /\ tasks'[id].step = "done"
                 /\ ~(tasks[id].image_path \in DOMAIN loading_futures')
                 /\ completed_tasks' = completed_tasks + 1]_vars
    /\ \A id \in 1..MaxTasks :
           (id \in TaskIds /\ tasks[id].step = "queued")
               ~> (id \in TaskIds /\ tasks[id].step \in {"done", "dropped"})

\* with one worker: a task has failed, and a task accepted after the first
\* had finished has been run to its end as well
C15_Witness ==
    /\ max_workers = 1
    /\ Len(tasks) = 2
    /\ \A id \in TaskIds : /\ tasks[id].step = "done"
                           /\ tasks[id].result = "failed"
                           /\ tasks[id].cancel_called = "never"
    /\ signals.allImagesLoaded = 2
    /\ completed_tasks = 2 /\ total_tasks = 2
    /\ loading_futures = NoFutures

(***************************************************************************)
(* MemoryManager.  The monitor runs on the thread of its QTimer, one       *)
(* statement group per step, so that the order of the emissions, of the    *)
(* emergency flag and of the callbacks can be observed.  A cleanup         *)
(* callback is one of two kinds: the application's _cleanup_callback, and  *)
(* a callback that raises.                                                 *)
(***************************************************************************)
MaxMonitorCalls == 3
MaxCallbacks == 2

CallbackKinds == {"app", "raising"}
Samples == {700, 800, 1200}
Elapsed == {1, 5, 30}
FreedPerMB == 10

\* mutant: the handler of the exception is missing
Propagates == FALSE
\* except Exception: around each call of a cleanup callback
Caught == TRUE

Idle == monitor.pc = "idle"

\* a statement group of the monitor that touches neither the files, the
\* cache nor the loader
MonitorStep(Statement) ==
    /\ Statement
    /\ UNCHANGED <<files, cacheVars, now, ret, threadVars, loaderVars, memory_pool>>

Signal(m, sig) == [m EXCEPT !.signals[sig] = @ + 1]

\* what a cleanup callback has been called with
Called(kind, emergency) ==
    [callback |-> kind, emergency |-> emergency, flag |-> manager.emergency_mode]

\* Application._cleanup_callback: the estimate it returns, in MB
AppFreed(emergency) == IF emergency = "True" THEN 100 ELSE 0

\* an exception leaves the handler and the timer's slot
Abort == monitor' = [monitor EXCEPT !.pc = "idle", !.raised = TRUE,
                                    !.cont = "", !.i = 0, !.freed = 0]

\* mutant: every sample is handled as a warning
HandlerAlwaysWarns(rss) == "warning_emit"
\* _monitor_memory: the comparison of the sample with the two thresholds
Handler(rss) ==
    IF rss >= manager.critical_threshold_mb
    THEN "critical_emit"
    ELSE IF rss >= manager.warning_threshold_mb
    THEN "warning_emit"
    ELSE "should_gc"

\* _monitor_memory, up to the choice of the handler
MonitorTimeout(dt, rss) ==
    /\ Idle
    /\ monitor.calls < MaxMonitorCalls
    /\ now' = now + dt
    /\ IF ~manager.is_monitoring
          \/ now' - manager.last_memory_check < manager.check_interval
       THEN /\ monitor' = [monitor EXCEPT !.calls = @ + 1]
            /\ UNCHANGED <<manager, callback_log>>
       ELSE /\ manager' = [manager EXCEPT
                  !.last_memory_check = now',
                  !.stats.peak_memory_mb = IF rss > @ THEN rss ELSE @]
            /\ monitor' = [monitor EXCEPT
                  !.calls = @ + 1,
                  !.previous_rss = monitor.rss,
                  !.rss = rss,
                  !.pc = Handler(rss)]
            /\ callback_log' = <<>>
    /\ UNCHANGED <<files, cacheVars, ret, threadVars, loaderVars, memory_pool>>

\* _handle_critical_memory: self.memoryCritical.emit(critical_msg)
CriticalEmit ==
    /\ monitor.pc = "critical_emit"
    /\ manager' = Signal(manager, "memoryCritical")
    /\ monitor' = [monitor EXCEPT !.pc = "critical_flag"]
    /\ UNCHANGED callback_log

\* _handle_critical_memory: self.emergency_mode = True
CriticalFlag ==
    /\ monitor.pc = "critical_flag"
    /\ manager' = [manager EXCEPT !.emergency_mode = TRUE]
    /\ monitor' = [monitor EXCEPT !.pc = "free_pools", !.cont = "emergency"]
    /\ UNCHANGED callback_log

\* _handle_memory_warning: self.memoryWarning.emit(warning_msg)
WarningEmit ==
    /\ monitor.pc = "warning_emit"
    /\ manager' = Signal(manager, "memoryWarning")
    /\ monitor' = [monitor EXCEPT !.pc = "free_pools", !.cont = "warning"]
    /\ UNCHANGED callback_log

\* force_cleanup
ForceCleanup ==
    /\ Idle
    /\ monitor.calls < MaxMonitorCalls
    /\ monitor' = [monitor EXCEPT !.pc = "free_pools", !.cont = "force",
                                  !.calls = @ + 1]
    /\ callback_log' = <<>>
    /\ UNCHANGED manager

\* with self.image_pool.mutex: the pool's mutex is a QMutex, used as a
\* context manager without a QMutexLocker.  The QMutex of PyQt5 and PyQt4 has
\* no __enter__, and the statement raises; under a binding whose QMutex has
\* the context-manager protocol the block is entered.
WithMutexOutcomes == {"enters", "raises"}

\* _free_caches: the two pools are emptied, 0.1 MB and 0.5 MB an object; an
\* exception raised by the with statement is outside every try block
FreePools ==
    /\ monitor.pc = "free_pools"
    /\ \E outcome \in WithMutexOutcomes :
           IF outcome = "enters"
           THEN /\ manager' = [manager EXCEPT !.image_pool = 0, !.pixmap_pool = 0]
                /\ monitor' = [monitor EXCEPT
                       !.pc = "free_callbacks", !.i = 1,
                       !.freed = manager.image_pool * 1 + manager.pixmap_pool * 5]
           ELSE /\ Abort
                /\ UNCHANGED manager
    /\ UNCHANGED callback_log

\* _free_caches: for callback in self.cleanup_callbacks: callback()
FreeCallback ==
    /\ monitor.pc = "free_callbacks"
    /\ IF monitor.i > Len(manager.cleanup_callbacks)
       THEN /\ monitor' = [monitor EXCEPT !.pc = "free_stats", !.i = 0]
            /\ UNCHANGED callback_log
       ELSE LET kind == manager.cleanup_callbacks[monitor.i]
            IN  /\ callback_log' = Append(callback_log, Called(kind, "none"))
                /\ IF kind = "raising"
                   THEN IF Caught
                        THEN monitor' = [monitor EXCEPT !.i = @ + 1,
                                                        !.caught = @ + 1]
                        ELSE Abort
                   ELSE monitor' = [monitor EXCEPT
                            !.i = @ + 1,
                            !.freed = @ + AppFreed("False") * FreedPerMB]
    /\ UNCHANGED manager

\* _free_caches: if freed_mb > 0: the statistic and memoryFreed; then the
\* caller goes on
FreeStats ==
    /\ monitor.pc = "free_stats"
    /\ manager' = IF monitor.freed > 0
                  THEN Signal([manager EXCEPT !.stats.memory_freed_mb =
                                   @ + monitor.freed], "memoryFreed")
                  ELSE manager
    /\ monitor' = [monitor EXCEPT
           !.freed = 0,
           !.i = IF monitor.cont = "emergency" THEN 1 ELSE 0,
           !.pc = CASE monitor.cont = "emergency" -> "emergency_callbacks"
                    [] monitor.cont = "warning" -> "warning_gc"
                    [] OTHER -> "request_gc"]
    /\ UNCHANGED callback_log

\* _emergency_cleanup: for callback in self.cleanup_callbacks:
\* callback(emergency=True); the application's callback clears the image cache
EmergencyCallback ==
    /\ monitor.pc = "emergency_callbacks"
    /\ IF monitor.i > Len(manager.cleanup_callbacks)
       THEN /\ monitor' = [monitor EXCEPT !.pc = "critical_gc", !.i = 0]
            /\ UNCHANGED <<callback_log, files, cacheVars, now, ret>>
       ELSE LET kind == manager.cleanup_callbacks[monitor.i]
            IN  /\ callback_log' = Append(callback_log, Called(kind, "True"))
                /\ IF kind = "raising"
                   THEN /\ IF Caught
                           THEN monitor' = [monitor EXCEPT !.i = @ + 1,
                                                           !.caught = @ + 1]
                           ELSE Abort
                        /\ UNCHANGED <<files, cacheVars, now, ret>>
                   ELSE /\ monitor' = [monitor EXCEPT !.i = @ + 1]
                        /\ ClearCache
    /\ UNCHANGED <<manager, threadVars, loaderVars, memory_pool>>

\* _handle_critical_memory: three collections, then self.emergency_mode = False
CriticalGC ==
    /\ monitor.pc = "critical_gc"
    /\ manager' = [manager EXCEPT !.stats.gc_count = @ + 3,
                                  !.emergency_mode = FALSE]
    /\ monitor' = [monitor EXCEPT !.pc = "should_gc", !.cont = ""]
    /\ UNCHANGED callback_log

\* _handle_memory_warning: gc.collect()
WarningGC ==
    /\ monitor.pc = "warning_gc"
    /\ manager' = [manager EXCEPT !.stats.gc_count = @ + 1]
    /\ monitor' = [monitor EXCEPT !.pc = "should_gc", !.cont = ""]
    /\ UNCHANGED callback_log

\* _monitor_memory: if self.memory_usage.should_gc(): self._request_gc()
ShouldGC ==
    /\ monitor.pc = "should_gc"
    /\ manager' = IF now - manager.last_gc_time >= manager.gc_interval
                  THEN Signal([manager EXCEPT !.last_gc_time = now], "gcRequested")
                  ELSE manager
    /\ monitor' = [monitor EXCEPT !.pc = "idle"]
    /\ UNCHANGED callback_log

\* force_cleanup: self._request_gc()
RequestGC ==
    /\ monitor.pc = "request_gc"
    /\ manager' = Signal(manager, "gcRequested")
    /\ monitor' = [monitor EXCEPT !.pc = "idle", !.cont = ""]
    /\ UNCHANGED callback_log

\* register_cleanup_callback
RegisterCleanupCallback(kind) ==
    /\ Idle
    /\ Len(manager.cleanup_callbacks) < MaxCallbacks
    /\ manager' = [manager EXCEPT !.cleanup_callbacks = Append(@, kind)]
    /\ UNCHANGED <<monitor, callback_log>>

\* list.remove: the first occurrence
RemoveFirst(s, x) ==
    LET k == CHOOSE j \in 1..Len(s) : s[j] = x /\ \A h \in 1..(j - 1) : s[h] # x
    IN  SubSeq(s, 1, k - 1) \o SubSeq(s, k + 1, Len(s))

\* unregister_cleanup_callback
UnregisterCleanupCallback(kind) ==
    /\ Idle
    /\ manager' = IF \E j \in 1..Len(manager.cleanup_callbacks) :
                         manager.cleanup_callbacks[j] = kind
                  THEN [manager EXCEPT !.cleanup_callbacks = RemoveFirst(@, kind)]
                  ELSE manager
    /\ UNCHANGED <<monitor, callback_log>>

\* get_memory_manager; the cache is the one of get_cache_manager
InitMonitor ==
    /\ InitThreads
    /\ InitLoaderFields
    /\ InitManager
    /\ max_workers = 4
    /\ files = [p \in AllPaths |-> [exists |-> TRUE, mtime |-> 0, size |-> InitialSize(p)]]
    /\ cache = <<>>
    /\ current_memory = 0
    /\ max_memory_mb = 500
    /\ max_items = 100
    /\ stats = [hits |-> 0, misses |-> 0, evictions |-> 0, preloaded |-> 0]
    /\ now = 0
    /\ ret = None

NextMonitor ==
    \/ \E dt \in Elapsed, rss \in Samples : MonitorTimeout(dt, rss)
    \/ MonitorStep(CriticalEmit)
    \/ MonitorStep(CriticalFlag)
    \/ MonitorStep(WarningEmit)
    \/ MonitorStep(ForceCleanup)
    \/ MonitorStep(FreePools)
    \/ MonitorStep(FreeCallback)
    \/ MonitorStep(FreeStats)
    \/ EmergencyCallback
    \/ MonitorStep(CriticalGC)
    \/ MonitorStep(WarningGC)
    \/ MonitorStep(ShouldGC)
    \/ MonitorStep(RequestGC)
    \/ \E kind \in CallbackKinds : MonitorStep(RegisterCleanupCallback(kind))
    \/ \E kind \in CallbackKinds : MonitorStep(UnregisterCleanupCallback(kind))

SpecMonitor == InitMonitor /\ [][NextMonitor]_vars

(***************************************************************************)
(* Properties of the memory monitor                                        *)
(***************************************************************************)
\* a step in which a cleanup callback is called
CallbackCalled == callback_log' # callback_log /\ callback_log' # <<>>

\* the monitor is evaluating a sample (and not running force_cleanup)
Evaluating == ~Idle /\ monitor.cont # "force" /\ monitor.pc # "request_gc"

\* C16: on an evaluation of the monitor whose sample is below the warning
\* threshold no cleanup callback is invoked and neither memoryWarning nor
\* memoryCritical is emitted: the evaluation goes straight to the periodic
\* collection.
C16_QuietBelowWarning ==
    [][/\ Evaluating /\ monitor.rss < manager.warning_threshold_mb =>
              /\ ~CallbackCalled
              /\ manager'.signals.memoryWarning = manager.signals.memoryWarning
              /\ manager'.signals.memoryCritical = manager.signals.memoryCritical
              /\ monitor.pc = "should_gc"
       /\ (Idle /\ ~Idle' /\ monitor'.cont # "force" /\ monitor'.rss < manager.warning_threshold_mb) =>
              /\ callback_log' = <<>>
              /\ manager'.signals = manager.signals]_vars

\* a sample below the warning threshold is being evaluated, after a critical
\* one, with two callbacks registered: none of them has been called
C16_Witness ==
    /\ monitor.pc = "should_gc"
    /\ monitor.rss = 700
    /\ monitor.previous_rss = 1200
    /\ Len(manager.cleanup_callbacks) = 2
    /\ callback_log = <<>>
    /\ manager.signals.memoryCritical = 1
    /\ manager.signals.memoryWarning = 0

\* the state of the usage: 0 normal, 1 warning, 2 critical
Level(rss) ==
    IF rss >= manager.critical_threshold_mb THEN 2
    ELSE IF rss >= manager.warning_threshold_mb THEN 1 ELSE 0

\* the value of the parameter emergency in a call: a call without argument
\* leaves it to its default, False
EmergencyIn(call) == IF call.emergency = "True" THEN TRUE ELSE FALSE

\* every registered callback called once, in order, with the given flag
CalledOnceEach(emergency) ==
    /\ Len(callback_log) = Len(manager.cleanup_callbacks)
    /\ \A j \in 1..Len(callback_log) :
           /\ callback_log[j].callback = manager.cleanup_callbacks[j]
           /\ EmergencyIn(callback_log[j]) = emergency

\* C17: each registered cleanup callback is invoked exactly once per
\* threshold crossing: once with emergency=false when the usage enters
\* Warning, once with emergency=true when it enters Critical, and not at all
\* while the usage stays in the same state or is back to normal.  Stated at
\* the end of the handlers of an evaluation.
C17_OncePerCrossing ==
    Evaluating /\ monitor.pc = "should_gc" =>
        LET level == Level(monitor.rss)
            before == Level(monitor.previous_rss)
        IN  IF level = before \/ level = 0
            THEN callback_log = <<>>
            ELSE CalledOnceEach(level = 2)

\* _handle_critical_memory is executing
InCritical ==
    \/ monitor.pc \in {"critical_emit", "critical_flag", "critical_gc"}
    \/ monitor.cont = "emergency"

\* the calls of the current pass made with emergency=True
EmergencyCalls == SelectSeq(callback_log, LAMBDA call : call.emergency = "True")

\* C18: on an evaluation at or above the critical threshold the monitor emits
\* memoryCritical, then sets the emergency flag, then invokes every
\* registered callback with emergency=true while the flag is set, then
\* clears the flag; the flag is false whenever the critical handler is not
\* executing, even when a callback raises.
C18_CriticalHandlerOrder ==
    /\ [](~InCritical => ~manager.emergency_mode)
    /\ [](\A j \in 1..Len(EmergencyCalls) : EmergencyCalls[j].flag)
    /\ [](monitor.pc = "critical_gc" =>
             /\ manager.emergency_mode
             /\ Len(EmergencyCalls) = Len(manager.cleanup_callbacks)
             /\ \A j \in 1..Len(EmergencyCalls) :
                    EmergencyCalls[j].callback = manager.cleanup_callbacks[j])
    /\ [][/\ monitor.pc = "critical_emit" =>
                 /\ ~manager.emergency_mode /\ ~manager'.emergency_mode
                 /\ manager'.signals.memoryCritical =
                        manager.signals.memoryCritical + 1
                 /\ monitor'.pc = "critical_flag"
          /\ manager.emergency_mode # manager'.emergency_mode =>
                 monitor.pc \in {"critical_flag", "critical_gc"}
          /\ monitor'.pc = "critical_emit" =>
                 monitor'.rss >= manager.critical_threshold_mb]_vars

\* every registered callback has been called with emergency=True in the
\* current pass, once each and in the order of registration
EmergencyCalledEach ==
    /\ Len(EmergencyCalls) = Len(manager.cleanup_callbacks)
    /\ \A j \in 1..Len(EmergencyCalls) :
           EmergencyCalls[j].callback = manager.cleanup_callbacks[j]

\* C19: force_cleanup performs the cleanup of the critical path: when it is
\* at its last statement, about to return, every registered cleanup callback
\* has been invoked with emergency=true, whatever the time since the last
\* evaluation and whatever the memory usage.
C19_ForceCleanupIsCritical ==
    monitor.cont = "force" /\ monitor.pc = "request_gc" => EmergencyCalledEach

\* the calls made so far by the loop over the callbacks that is running
LoopCalls ==
    IF monitor.pc = "emergency_callbacks" THEN EmergencyCalls
    ELSE SelectSeq(callback_log, LAMBDA call : call.emergency = "none")

\* C20: an exception raised by a cleanup callback never leaves the monitor:
\* a step of a loop over the callbacks, of a warning, a critical or a forced
\* pass, never ends the pass and never records a propagated exception, it
\* calls the next registered callback whatever the previous one did, and it
\* leaves the monitoring switched on; after the loop every registered
\* callback has been called.
C20_CallbackExceptionIsCaught ==
    /\ [][monitor.pc \in {"free_callbacks", "emergency_callbacks"} =>
              /\ monitor'.raised = monitor.raised
              /\ monitor'.pc # "idle"
              /\ monitor'.cont = monitor.cont
              /\ manager' = manager
              /\ monitor.i <= Len(manager.cleanup_callbacks) =>
                     /\ monitor'.pc = monitor.pc
                     /\ monitor'.i = monitor.i + 1
                     /\ Len(callback_log') = Len(callback_log) + 1
                     /\ callback_log'[Len(callback_log')].callback =
                            manager.cleanup_callbacks[monitor.i]]_vars
    /\ [](monitor.pc \in {"free_callbacks", "emergency_callbacks"} =>
             /\ Len(LoopCalls) = monitor.i - 1
             /\ \A j \in 1..Len(LoopCalls) :
                    LoopCalls[j].callback = manager.cleanup_callbacks[j])
    /\ [](monitor.pc = "free_stats" =>
             Len(callback_log) = Len(manager.cleanup_callbacks))
    /\ [](monitor.pc = "critical_gc" =>
             Len(callback_log) = 2 * Len(manager.cleanup_callbacks))

\* the third call of the monitor is a critical evaluation with a raising
\* callback registered before the application's: four exceptions of callbacks
\* have been caught, in earlier passes and in this one, nothing has
\* propagated, and the application's callback has been called after the
\* raising one in both loops of this pass
C20_Witness ==
    /\ monitor.calls = 3
    /\ monitor.pc = "critical_gc"
    /\ manager.cleanup_callbacks = <<"raising", "app">>
    /\ monitor.caught = 4
    /\ ~monitor.raised
    /\ Len(callback_log) = 4
    /\ callback_log[2].callback = "app" /\ callback_log[2].emergency = "none"
    /\ callback_log[4].callback = "app" /\ callback_log[4].emergency = "True"

(***************************************************************************)
(* cancel_all_loads and get_stats                                          *)
(***************************************************************************)
\* get_stats: 'queue_size': self.task_queue.qsize(), 'active_loads':
\* len(self.loading_futures)
GetStats ==
    [queue_size |-> Len(task_queue),
     active_loads |-> Cardinality(DOMAIN loading_futures),
     completed_tasks |-> completed_tasks,
     total_tasks |-> total_tasks]

\* C21: after cancel_all_loads the pending queue is empty (the reported queue
\* size is 0) and the in-flight set is empty; every task that was pending at
\* the call is cancelled, so that it is never executed and its callback never
\* invoked, and the tasks that are executing are left as they are.
C21_CancelAllEmptiesQueue ==
    [][CancelAllLoads =>
          /\ GetStats'.queue_size = 0
          /\ GetStats'.active_loads = 0
          /\ \A id \in Waiting : tasks'[id].future = "CANCELLED"
          /\ \A id \in Busy : /\ tasks'[id].step = tasks[id].step
                               /\ tasks'[id].future = "RUNNING"]_vars

(***************************************************************************)
(* SpecShutdown: the loader with shutdown and set_max_workers.  The thread *)
(* that owns the loader makes no other call while it waits in one of them. *)
(***************************************************************************)
ShutdownTime == 4
ShutdownPaths == {"a", "b"}

\* a call by the owning thread
OwnerCall(Call) ==
    /\ executor.waiting = "none"
    /\ Before(ShutdownTime)
    /\ Call
    /\ UNCHANGED <<threadVars, memVars, batch>>

NextShutdown ==
    \/ \E p \in ShutdownPaths : OwnerCall(LoadImage(p, RequestPriority(p), TRUE))
    \/ \E p \in ShutdownPaths : OwnerCall(CancelLoad(p))
    \/ OwnerCall(Shutdown)
    \/ ShutdownReturn
    \/ \E n \in WorkerCounts : OwnerCall(SetMaxWorkers(n))
    \/ SetMaxWorkersReturn
    \/ WorkerTake
    \/ \E id \in TaskIds : WorkerBody(id)
    \/ \E id \in TaskIds : WorkerFinally(id)

SpecShutdown == InitLoader /\ [][NextShutdown]_vars

\* the worker threads run, and a wait that can end does end
SpecShutdownFair ==
    /\ InitLoader
    /\ [][NextShutdown]_vars
    /\ WF_vars(WorkerTake)
    /\ WF_vars(\E id \in TaskIds : WorkerBody(id))
    /\ WF_vars(\E id \in TaskIds : WorkerFinally(id))
    /\ WF_vars(ShutdownReturn)
    /\ WF_vars(SetMaxWorkersReturn)

\* shutdown has been called and has returned, and the executor has not been
\* replaced since
ShutDown == executor.shutdown /\ executor.waiting = "none"

\* the fields of the loader
LoaderState ==
    <<loading_futures, tasks, work_queue, task_queue, total_tasks,
      completed_tasks, signals, loader_stats, max_workers>>

\* C22: shutdown terminates once the executing workers have drained; when it
\* returns no worker is executing, and from then on no task starts; a second
\* call of shutdown returns as well and leaves the state of the loader as it
\* was.
C22_ShutdownDrainsAndIsIdempotent ==
    /\ (executor.waiting = "shutdown") ~> (executor.waiting = "none")
    /\ [][ShutdownReturn => Busy' = {} /\ Waiting' = {}]_vars
    /\ [][ShutDown => \A id \in TaskIds :
                          tasks'[id].step = "body" => tasks[id].step = "body"]_vars
    /\ [][ShutDown /\ Shutdown =>
              /\ LoaderState' = LoaderState
              /\ load_ret' = None
              /\ Drained']_vars

\* the owning thread is inside a call that waits for worker threads
OwnerWaits == executor.waiting # "none" /\ ~Drained

\* C23: no call of the loader other than shutdown makes the calling thread
\* wait for a background thread to finish its work: whenever the owning
\* thread is waiting for workers to drain, the call it is in is shutdown.
C23_OnlyShutdownWaits == OwnerWaits => executor.waiting = "shutdown"

(***************************************************************************)
(* SpecPreload: load_image, load_images_batch and preload_images over the  *)
(* files of SpecIntake, of which "a" and "d" are readable images.          *)
(***************************************************************************)
PreloadTime == 3
MaxLookahead == 2

PathLists == {<<>>, <<"a">>, <<"a", "c", "d">>, <<"d", "b", "a", "e">>}
\* the docstring of load_image: 0 is the highest priority, 100 the lowest
ForegroundPriorities == {0, 100}
ReadablePaths == {"a", "d"}

\* a call begun by the owning thread while it is in no other call
BeginCall(Call) == Before(PreloadTime) /\ batch.op = "none" /\ Call

NextPreload ==
    \/ \E p \in ReadablePaths, priority \in ForegroundPriorities :
           BeginCall(LoadImage(p, priority, TRUE)
                     /\ UNCHANGED <<threadVars, memVars, batch>>)
    \/ \E image_paths \in PathLists : BeginCall(LoadImagesBatch(image_paths, 0))
    \/ \E image_paths \in PathLists, lookahead \in 0..MaxLookahead :
           \E current_index \in 0..Max(0, Len(image_paths) - 1) :
               BeginCall(PreloadImages(image_paths, current_index, lookahead))
    \/ BatchStep
    \/ BatchReturn
    \/ WorkerTake
    \/ \E id \in TaskIds : WorkerBody(id)
    \/ \E id \in TaskIds : WorkerFinally(id)

SpecPreload == InitIntake /\ [][NextPreload]_vars

\* the indices of the window of a call of preload_images, counted from 0
WindowIndices(image_paths, current_index, lookahead) ==
    {i \in 0..(Len(image_paths) - 1) :
        /\ i # current_index
        /\ current_index - lookahead <= i
        /\ i <= current_index + lookahead}

\* the number of calls of load_image the current call has made for a path
Requests(p) == Cardinality({k \in 1..Len(batch.requested) :
                               batch.requested[k].image_path = p})

\* the calls of load_image of the current call that returned True
Accepted == {k \in 1..Len(batch.requested) : batch.requested[k].accepted}

\* C24: for every path list, current index of the list and lookahead >= 0,
\* preload_images requests exactly the paths whose index lies in
\* [current_index - lookahead, current_index + lookahead], clipped to the
\* list and without current_index, each once, and returns the number of
\* those requests that load_image accepted.
C24_PreloadWindow ==
    [][BatchReturn /\ batch.op = "preload" =>
          LET image_paths == batch.args[1]
              window == WindowIndices(image_paths, batch.args[2], batch.args[3])
          IN  /\ \A p \in AllPaths :
                     Requests(p) =
                         Cardinality({i \in window : At(image_paths, i) = p})
              /\ Len(batch.requested) = Cardinality(window)
              /\ load_ret' = Count(Cardinality(Accepted))]_vars

\* preload_images(["d", "b", "a", "e"], 2, 2) is about to return 1: the
\* window is clipped to the indices 0, 1 and 3, and of d, b and e only d, a
\* readable image, was accepted
C24_Witness ==
    /\ batch.op = "preload"
    /\ batch.args = << <<"d", "b", "a", "e">>, 2, 2 >>
    /\ batch.i = 3
    /\ batch.requested = <<[image_path |-> "d", accepted |-> TRUE],
                           [image_path |-> "b", accepted |-> FALSE],
                           [image_path |-> "e", accepted |-> FALSE]>>
    /\ batch.added_count = 1
    /\ signals.imageLoadFailed >= 2

\* the tasks made by preload_images, and those made by load_image and
\* load_images_batch
PreloadTasks == {id \in TaskIds : tasks[id].origin = "preload"}
ForegroundTasks == {id \in TaskIds : tasks[id].origin # "preload"}

\* C25: every task made by preload_images has a priority value strictly
\* greater than that of every task made by load_image or load_images_batch.
C25_PreloadBelowForeground ==
    \A preload \in PreloadTasks, foreground \in ForegroundTasks :
        tasks[preload].priority > tasks[foreground].priority

(***************************************************************************)
(* Properties of the calls of the cache, for a single caller (Spec)        *)
(***************************************************************************)
\* the entry of p is in the cache and its file is as it was at the put
CachedUnchanged(p) == p \in Keys(cache) /\ Exists(p) /\ ~Stale(p)

\* C26: a get_image on a cached path whose file is unchanged returns the
\* pair of the entry and leaves that pair in the entry, adds one to hits and
\* one to the access count of the entry, and leaves misses and the set of
\* cached paths as they are; N consecutive calls therefore return the same
\* pair, add N to hits and N to the access count.
C26_RepeatedHits ==
    [][\A p \in Paths :
          CachedUnchanged(p) /\ GetImage(p) =>
              /\ ret' = <<Item(cache, p).image, Item(cache, p).pixmap>>
              /\ Item(cache', p).image = Item(cache, p).image
              /\ Item(cache', p).pixmap = Item(cache, p).pixmap
              /\ CachedUnchanged(p)'
              /\ stats'.hits = stats.hits + 1
              /\ stats'.misses = stats.misses
              /\ Keys(cache') = Keys(cache)
              /\ Item(cache', p).access_count = Item(cache, p).access_count + 1]_vars

\* put_image(a, v1) and three calls of get_image(a): three hits, no miss,
\* an access count of 1 + 3, and the pair of the put returned
C26_Witness ==
    /\ now = 4
    /\ PathsOf(cache) = <<"a">>
    /\ cache[1].access_count = 4
    /\ cache[1].last_access = 4
    /\ stats.hits = 3 /\ stats.misses = 0
    /\ ret = <<"v1", "v1">>

\* C27: a get_image on a path that is not in the cache returns a miss, adds
\* one to misses and leaves hits and the cache as they are; hence every call
\* of get_image adds one to hits + misses.
C27_AbsentIsCountedAsMiss ==
    [][\A p \in Paths :
          /\ p \notin Keys(cache) /\ GetImage(p) =>
                 /\ ret' = None
                 /\ stats'.misses = stats.misses + 1
                 /\ stats'.hits = stats.hits
                 /\ cache' = cache
          /\ GetImage(p) =>
                 stats'.hits + stats'.misses = stats.hits + stats.misses + 1]_vars

\* the entries for other paths than p that a step removes from the cache
EvictedBeside(p) ==
    SelectSeq(cache, LAMBDA e : e.image_path # p /\ e.image_path \notin Keys(cache'))

\* C28: put_image on a path that is already cached replaces the entry:
\* afterwards the cache holds exactly one entry for the path, with the new
\* buffers, at the most recently used end, and the byte total has changed by
\* the new size less the old size, before the sizes of the entries that the
\* eviction removed are taken off.
C28_PutReplaces ==
    [][\A p \in Paths, i \in Images :
          p \in Keys(cache) /\ Exists(p) /\ PutImage(p, i, i) =>
              /\ Cardinality({k \in 1..Len(cache') : cache'[k].image_path = p}) = 1
              /\ cache'[Len(cache')].image_path = p
              /\ Item(cache', p).image = i
              /\ Item(cache', p).pixmap = i
              /\ Item(cache', p).file_size = GetSize(p)
              /\ Item(cache', p).access_count = 1
              /\ current_memory' + SumSizes(EvictedBeside(p)) =
                     current_memory - Item(cache, p).file_size + GetSize(p)]_vars

\* put_image(a, v1), put_image(b), a grows from 1 to 2 units, put_image(a,
\* v2): a is the newest entry, holds v2, and the byte total is 2 + 2
C28_Witness ==
    /\ now = 4
    /\ PathsOf(cache) = <<"b", "a">>
    /\ cache[1].last_access = 2
    /\ cache[2].image = "v2" /\ cache[2].file_size = 2 /\ cache[2].last_access = 4
    /\ current_memory = 4
    /\ stats.evictions = 1

\* C29: clear_cache leaves the cache with no entry and a byte total of zero,
\* and leaves the counters of hits and misses as they were.
C29_ClearKeepsCounters ==
    [][ClearCache =>
          /\ Len(cache') = 0
          /\ current_memory' = 0
          /\ stats'.hits = stats.hits
          /\ stats'.misses = stats.misses]_vars

\* put_image(a), a hit on a, a miss on b, clear_cache: the cache is empty
\* though nothing was evicted, and the hit and the miss are still counted
C29_Witness ==
    /\ now = 4
    /\ cache = <<>>
    /\ current_memory = 0
    /\ stats = [hits |-> 1, misses |-> 1, evictions |-> 0, preloaded |-> 0]
    /\ ret = None

\* the cache a step leaves is the cache without its k oldest entries
DroppedOldest(k) == k \in 0..Len(cache) /\ cache' = SubSeq(cache, k + 1, Len(cache))

\* the limits hold of a cache under the limits that the step sets
Within(c) ==
    /\ Len(c) <= max_items'
    /\ SumSizes(c) <= max_memory_mb' * UnitsPerMB \/ Len(c) <= 1

\* the limits hold when the call returns, the byte total is that of the
\* entries left, and what was removed is the surplus at the least recently
\* used end: the oldest entries, and not one more than the limits require
SurplusEvicted ==
    /\ Within(cache')
    /\ current_memory' = SumSizes(cache')
    /\ \E k \in 0..Len(cache) :
           /\ DroppedOldest(k)
           /\ k > 0 => ~Within(SubSeq(cache, k, Len(cache)))

\* C30: set_memory_limit and set_max_items take effect at once: when the
\* call returns the new limit is set, the cache has at most max_items
\* entries, and its byte total is within the memory limit unless it has at
\* most one entry, the surplus having been evicted from the least recently
\* used end.
C30_LimitsTakeEffect ==
    [][/\ \A mb \in MemoryLimitsMB :
              SetMemoryLimit(mb) => max_memory_mb' = mb /\ SurplusEvicted
       /\ \A n \in ItemLimits :
              SetMaxItems(n) => max_items' = n /\ SurplusEvicted]_vars

\* put_image(a) and put_image(b) under a limit of 2 MB, then
\* set_memory_limit(1): a, the older entry, has been evicted and b is left
C30_Witness ==
    /\ now = 3
    /\ max_memory_mb = 1 /\ max_items = 2
    /\ PathsOf(cache) = <<"b">>
    /\ cache[1].last_access = 2
    /\ current_memory = 2
    /\ stats.evictions = 1
    /\ ret = None

(***************************************************************************)
(* The browsing session of the integration test, under SpecBrowse.         *)
(***************************************************************************)
\* the paths is_cached answers True for
CachedPaths(c) == {p \in BrowsePaths : p \in Keys(c)}

\* C31: with max_items = 3, the put of a fourth path d after a, b, c leaves
\* a, b and c cached and d not cached; from there get_image(a) is a hit, and a
\* put of a fifth path e leaves a cached.
C31_FullWorkflow ==
    [][/\ (PathsOf(cache) = <<"a", "b", "c">> /\ PutImage("d", "v1", "v1"))
              => CachedPaths(cache') = {"a", "b", "c"}
       /\ (CachedPaths(cache) = {"a", "b", "c"} /\ GetImage("a"))
              => ret' # None /\ stats'.hits = stats.hits + 1
       /\ (CachedPaths(cache) = {"a", "b", "c"} /\ NewestKey(cache) = "a"
              /\ PutImage("e", "v1", "v1"))
              => "a" \in CachedPaths(cache')]_vars

(***************************************************************************)
(* The lifetime statistic memory_freed_mb, under SpecMonitor.              *)
(***************************************************************************)
\* what a recorded invocation of a cleanup callback returned, in tenths of a
\* MB; a callback that raises returns nothing
Estimate(call) ==
    IF call.callback = "app"
    THEN AppFreed(IF call.emergency = "True" THEN "True" ELSE "False") * FreedPerMB
    ELSE 0

RECURSIVE SumEstimates(_)
SumEstimates(calls) ==
    IF calls = <<>> THEN 0 ELSE Estimate(Head(calls)) + SumEstimates(Tail(calls))

\* C32: the estimate returned by every invocation of a cleanup callback, with
\* emergency=true as well as without, is added to memory_freed_mb: when the
\* loops of a pass are over, the statistic holds at least the estimates
\* returned in this pass, and it never decreases.
C32_EveryEstimateIsSummed ==
    /\ [](monitor.pc \in {"warning_gc", "critical_gc", "request_gc"} =>
             manager.stats.memory_freed_mb >= SumEstimates(callback_log))
    /\ [][manager'.stats.memory_freed_mb >= manager.stats.memory_freed_mb]_vars

(***************************************************************************)
(* MemoryPool.  The objects of a pool are numbered in the order in which   *)
(* the factory makes them; every call holds the pool's mutex through a     *)
(* QMutexLocker and is one step.                                           *)
(***************************************************************************)
\* the factory is called at most MaxObjects times
MaxObjects == 4
\* the arguments initial_size and max_size a pool is constructed with
InitialSizes == 0..3
MaxSizes == 0..3

\* MemoryPool.__init__: initial_size objects are made and appended
NewPool(initial_size, max_size) ==
    [pool |-> [i \in 1..initial_size |-> i], max_size |-> max_size,
     made |-> initial_size]

\* MemoryPool.get
PoolGet ==
    IF memory_pool.pool # <<>>
    THEN /\ ret' = <<Head(memory_pool.pool)>>
         /\ memory_pool' = [memory_pool EXCEPT !.pool = Tail(@)]
    ELSE /\ memory_pool.made < MaxObjects
         /\ ret' = <<memory_pool.made + 1>>
         /\ memory_pool' = [memory_pool EXCEPT !.made = @ + 1]

\* MemoryPool.put
PoolPut(obj) ==
    /\ memory_pool' = IF Len(memory_pool.pool) < memory_pool.max_size
                      THEN [memory_pool EXCEPT !.pool = Append(@, obj)]
                      ELSE memory_pool
    /\ ret' = None

\* a call on the pool touches nothing else
PoolCall(Call) ==
    /\ Call
    /\ UNCHANGED <<files, cacheVars, now, threadVars, loaderVars, manager,
                   monitor, callback_log>>

InitPool ==
    /\ InitThreads
    /\ InitLoaderFields
    /\ InitManagerFields
    /\ max_workers = 4
    /\ files = [p \in AllPaths |-> [exists |-> TRUE, mtime |-> 0, size |-> InitialSize(p)]]
    /\ cache = <<>>
    /\ current_memory = 0
    /\ max_memory_mb = 500
    /\ max_items = 100
    /\ stats = [hits |-> 0, misses |-> 0, evictions |-> 0, preloaded |-> 0]
    /\ now = 0
    /\ ret = None
    /\ \E initial_size \in InitialSizes, max_size \in MaxSizes :
           memory_pool = NewPool(initial_size, max_size)

\* the owner releases objects that the factory has made
NextPool ==
    \/ PoolCall(PoolGet)
    \/ \E obj \in 1..memory_pool.made : PoolCall(PoolPut(obj))

SpecPool == InitPool /\ [][NextPool]_vars

\* C33: the free list never holds more than max_size objects, whatever the
\* pool was constructed with; a put into a full pool leaves the pool as it
\* is, and a get from an empty pool returns an object the factory has just
\* made and leaves the free list empty.
C33_PoolWithinCap ==
    /\ [](Len(memory_pool.pool) <= memory_pool.max_size)
    /\ [][\A obj \in 1..memory_pool.made :
              (Len(memory_pool.pool) >= memory_pool.max_size /\ PoolPut(obj))
                  => memory_pool' = memory_pool]_vars
    /\ [][(memory_pool.pool = <<>> /\ PoolGet) =>
              /\ memory_pool'.pool = <<>>
              /\ ret' = <<memory_pool.made + 1>>]_vars

(***************************************************************************)
(* SpecEmergency: the monitor of the application, whose _cleanup_callback  *)
(* is registered at start-up, beside a cache that the application fills    *)
(* between the passes of the monitor.                                      *)
(***************************************************************************)
\* no image is put at EmergencyTime or later
EmergencyTime == 3

\* Application._initialize_managers: the cache manager, the memory manager
\* and register_cleanup_callback(self._cleanup_callback)
InitEmergency ==
    /\ InitThreads
    /\ InitLoaderFields
    /\ manager = [warning_threshold_mb |-> 800, critical_threshold_mb |-> 1200,
                  last_memory_check |-> 0, check_interval |-> 5,
                  last_gc_time |-> 0, gc_interval |-> 30,
                  image_pool |-> 5, pixmap_pool |-> 5,
                  cleanup_callbacks |-> <<"app">>,
                  is_monitoring |-> TRUE, emergency_mode |-> FALSE,
                  stats |-> [peak_memory_mb |-> 0, gc_count |-> 0,
                             memory_freed_mb |-> 0],
                  signals |-> [memoryWarning |-> 0, memoryCritical |-> 0,
                               memoryFreed |-> 0, gcRequested |-> 0]]
    /\ monitor = NoPass
    /\ callback_log = <<>>
    /\ memory_pool = NoPool
    /\ max_workers = 4
    /\ files = [p \in AllPaths |-> [exists |-> TRUE, mtime |-> 0, size |-> InitialSize(p)]]
    /\ cache = <<>>
    /\ current_memory = 0
    /\ max_memory_mb \in MemoryLimitsMB
    /\ max_items \in ItemLimits
    /\ stats = [hits |-> 0, misses |-> 0, evictions |-> 0, preloaded |-> 0]
    /\ now = 0
    /\ ret = None

NextEmergency ==
    \/ \E p \in Paths : Idle /\ Atomic(EmergencyTime, PutImage(p, "v1", "v1"))
    \/ \E dt \in Elapsed, rss \in Samples : MonitorTimeout(dt, rss)
    \/ MonitorStep(CriticalEmit)
    \/ MonitorStep(CriticalFlag)
    \/ MonitorStep(WarningEmit)
    \/ MonitorStep(FreePools)
    \/ MonitorStep(FreeCallback)
    \/ MonitorStep(FreeStats)
    \/ EmergencyCallback
    \/ MonitorStep(CriticalGC)
    \/ MonitorStep(WarningGC)
    \/ MonitorStep(ShouldGC)

SpecEmergency == InitEmergency /\ [][NextEmergency]_vars

\* the handling of a critical sample ends in this step: by the last statement
\* of _handle_critical_memory, or by an exception that leaves it
CriticalHandlerEnds ==
    /\ InCritical
    /\ ~InCritical'

\* C34: with the application's cleanup callback registered, the handling of
\* a sample at or above the critical threshold clears the image cache: when
\* the critical handler ends the cache has no entry and a byte total of zero,
\* whatever max_items and max_memory_mb are.
C34_CriticalClearsCache ==
    [][CriticalHandlerEnds => cache' = <<>> /\ current_memory' = 0]_vars

(***************************************************************************)
(* The aggregate byte total of the cache, under Spec.                      *)
(***************************************************************************)
\* C35: after any sequence of put_image, get_image, is_cached, clear_cache,
\* set_memory_limit and set_max_items the byte total of the cache is the sum
\* of the sizes recorded in its entries: it is zero when the cache is empty
\* and it is never negative.
C35_ByteTotalIsSum ==
    /\ current_memory = SumSizes(cache)
    /\ cache = <<>> => current_memory = 0
    /\ current_memory >= 0

\* an entry has been evicted and the file of the remaining entry has been
\* rewritten with another size since it was put: the total is the recorded
\* size, not the size of the file
C35_Witness ==
    /\ Len(cache) = 1
    /\ stats.evictions >= 1
    /\ Exists(cache[1].image_path)
    /\ GetSize(cache[1].image_path) # cache[1].file_size
    /\ current_memory = cache[1].file_size

(***************************************************************************)
(* The drained event and the two counters, under SpecLoader.               *)
(***************************************************************************)
\* the accepted tasks whose future is neither finished nor cancelled
Outstanding(ts) ==
    {id \in 1..Len(ts) : ts[id].future \in {"PENDING", "RUNNING"}}

\* C36: allImagesLoaded is emitted only when no accepted task is pending or
\* executing any more, and completed_tasks never exceeds total_tasks, under
\* every interleaving of load_image, cancel_load, cancel_all_loads and the
\* workers.
C36_DrainedOnlyWhenIdle ==
    /\ [][signals'.allImagesLoaded # signals.allImagesLoaded =>
              Outstanding(tasks') = {}]_vars
    /\ [](completed_tasks <= total_tasks)

\* a task that cancel_load or cancel_all_loads cancelled before a worker
\* started it
CancelledWhilePending(task) ==
    task.future = "CANCELLED" /\ task.cancel_called = "queued"

\* at least one task was accepted, and every accepted task has finished on a
\* worker or was cancelled while pending
Settled ==
    /\ tasks # <<>>
    /\ \A id \in TaskIds :
           tasks[id].step = "done" \/ CancelledWhilePending(tasks[id])

\* total_tasks still counts every accepted task: cancel_all_loads has not
\* reset it since the first task was accepted
NeverReset == total_tasks = Len(tasks)

\* C37: once every accepted task has finished on a worker or was cancelled
\* by cancel_load while pending, allImagesLoaded is eventually emitted:
\* from a state where all tasks are settled and the event has not been
\* emitted yet, it is emitted unless a new task is accepted first.
C37_DrainedEventuallyFires ==
    (Settled /\ NeverReset /\ signals.allImagesLoaded = 0)
        ~> (signals.allImagesLoaded > 0 \/ ~Settled)

(***************************************************************************)
(* The evictions counter, under Spec.                                      *)
(***************************************************************************)
\* the entry is still in the cache after the step: as it was, or with one
\* more access; the entry that replaces it on a put has a later last_access
\* and an access_count of 1
Survives(item) ==
    \E j \in 1..Len(cache') :
        /\ cache'[j].image_path = item.image_path
        /\ \/ cache'[j] = item
           \/ cache'[j].access_count = item.access_count + 1

\* the entries that a step removes from the cache
Leaving == {i \in 1..Len(cache) : ~Survives(cache[i])}

\* C38: every operation raises the evictions counter by exactly the number of
\* entries it removes from the cache, so that the counter is the number of
\* entries that have ever left the cache.
C38_EvictionsCountRemovals ==
    [][stats'.evictions = stats.evictions + Cardinality(Leaving)]_vars

(***************************************************************************)
(* SpecLocks: the two mutexes.  The thread that owns the loader runs its   *)
(* calls one step per acquisition, critical section and release of         *)
(* AsyncImageLoader.mutex, and of ImageCacheManager.mutex inside           *)
(* get_image; the worker threads take the loader's mutex in the finally    *)
(* block of _load_image_worker, and the cache's mutex, alone, in           *)
(* put_image.  No slot is connected to the signals that are emitted while  *)
(* a mutex is held.                                                        *)
(***************************************************************************)
\* no call of the owner starts at LockTime or later
LockTime == 3

LockPaths == {"a", "b"}
OwnerCalls == {"load_image", "cancel_load", "cancel_all_loads", "get_stats", "shutdown"}

\* the thread that owns the loader, and the worker thread that runs a task
Owner == "owner"
WorkerName(id) == "worker" \o ToString(id)

InitLocks ==
    /\ pc = [t \in {Owner} |-> "idle"]
    /\ frame = [t \in {Owner} |-> NoFrame]
    /\ mutex = "free"
    /\ loader_mutex = "free"
    /\ InitLoaderFields
    /\ InitManager
    /\ max_workers \in WorkerCounts
    /\ files = [p \in AllPaths |-> [exists |-> TRUE, mtime |-> 0, size |-> InitialSize(p)]]
    /\ cache = <<>>
    /\ current_memory = 0
    /\ max_memory_mb = 500
    /\ max_items = 100
    /\ stats = [hits |-> 0, misses |-> 0, evictions |-> 0, preloaded |-> 0]
    /\ now = 0
    /\ ret = None

\* the owner is at a statement of the call op
OwnerAt(label, op) == pc[Owner] = label /\ frame[Owner].op = op

\* the owner goes on to another statement
OwnerGoto(label) ==
    /\ pc' = [pc EXCEPT ![Owner] = label]
    /\ UNCHANGED <<frame, memVars, batch>>

\* the owner calls the loader; the checks of load_image that reject a path
\* are made before the mutex is taken
CallLoader(op, p) ==
    /\ pc[Owner] = "idle"
    /\ executor.waiting = "none"
    /\ Before(LockTime)
    /\ op = "load_image" => Len(tasks) < MaxTasks
    /\ IF op = "load_image" /\ Rejected(p)
       THEN /\ LoadImage(p, RequestPriority(p), TRUE)
            /\ UNCHANGED <<threadVars, memVars, batch>>
       ELSE /\ pc' = [pc EXCEPT ![Owner] = "lock"]
            /\ frame' = [frame EXCEPT ![Owner] = [NoFrame EXCEPT !.op = op, !.key = p]]
            /\ UNCHANGED <<files, cacheVars, now, ret, mutex, loader_mutex,
                           loaderVars, memVars>>

\* with QMutexLocker(self.mutex): of the loader
OwnerLock ==
    /\ pc[Owner] = "lock"
    /\ loader_mutex = "free"
    /\ loader_mutex' = Owner
    /\ pc' = [pc EXCEPT ![Owner] = "locked"]
    /\ UNCHANGED <<files, cacheVars, now, ret, frame, mutex, loaderVars, memVars>>

\* load_image under the mutex: a path in flight returns at once, and
\* get_image returns before the cache's mutex when the file is gone
LoadLocked ==
    /\ OwnerAt("locked", "load_image")
    /\ IF InFlight(frame[Owner].key) \/ ~Exists(frame[Owner].key)
       THEN /\ LoadImage(frame[Owner].key, RequestPriority(frame[Owner].key), TRUE)
            /\ OwnerGoto("unlock")
            /\ UNCHANGED <<mutex, loader_mutex>>
       ELSE /\ OwnerGoto("cache_lock")
            /\ UNCHANGED <<files, cacheVars, now, ret, mutex, loader_mutex,
                           loading_futures, tasks, work_queue, task_queue,
                           total_tasks, completed_tasks, signals, loader_stats,
                           load_ret, max_workers, executor>>

\* get_image: with QMutexLocker(self.mutex): of the cache, the loader's
\* mutex being held
CacheLock ==
    /\ pc[Owner] = "cache_lock"
    /\ mutex = "free"
    /\ mutex' = Owner
    /\ pc' = [pc EXCEPT ![Owner] = "cache_locked"]
    /\ UNCHANGED <<files, cacheVars, now, ret, frame, loader_mutex, loaderVars, memVars>>

\* get_image returns and releases the cache's mutex; load_image goes on
\* under its own mutex to the hit or to the submission of the task
CacheLocked ==
    /\ pc[Owner] = "cache_locked"
    /\ mutex = Owner
    /\ LoadImage(frame[Owner].key, RequestPriority(frame[Owner].key), TRUE)
    /\ mutex' = "free"
    /\ OwnerGoto("unlock")
    /\ UNCHANGED loader_mutex

\* cancel_load under the mutex
CancelLoadLocked ==
    /\ OwnerAt("locked", "cancel_load")
    /\ CancelLoad(frame[Owner].key)
    /\ OwnerGoto("unlock")
    /\ UNCHANGED <<mutex, loader_mutex>>

\* cancel_all_loads under the mutex
CancelAllLocked ==
    /\ OwnerAt("locked", "cancel_all_loads")
    /\ CancelAllLoads
    /\ OwnerGoto("unlock")
    /\ UNCHANGED <<mutex, loader_mutex>>

\* get_stats under the mutex
GetStatsLocked ==
    /\ OwnerAt("locked", "get_stats")
    /\ NoCacheCall
    /\ load_ret' = <<"stats", GetStats.queue_size, GetStats.active_loads,
                     GetStats.completed_tasks, GetStats.total_tasks>>
    /\ OwnerGoto("unlock")
    /\ UNCHANGED <<mutex, loader_mutex, loading_futures, tasks, work_queue,
                   task_queue, total_tasks, completed_tasks, signals,
                   loader_stats, max_workers, executor>>

\* shutdown: cancel_all_loads under the mutex; the wait for the workers
\* follows the release
ShutdownLocked ==
    /\ OwnerAt("locked", "shutdown")
    /\ Shutdown
    /\ OwnerGoto("unlock")
    /\ UNCHANGED <<mutex, loader_mutex>>

\* mutant: the call returns with the loader's mutex held
OwnerKeepsLock ==
    /\ pc[Owner] = "unlock"
    /\ pc' = [pc EXCEPT ![Owner] = "idle"]
    /\ UNCHANGED <<files, cacheVars, now, ret, frame, mutex, loader_mutex,
                   loaderVars, memVars>>
\* the QMutexLocker of the loader's mutex goes out of scope
OwnerUnlock ==
    /\ pc[Owner] = "unlock"
    /\ loader_mutex' = "free"
    /\ pc' = [pc EXCEPT ![Owner] = "idle"]
    /\ UNCHANGED <<files, cacheVars, now, ret, frame, mutex, loaderVars, memVars>>

\* shutdown returns once every worker thread has ended
LockedShutdownReturn ==
    /\ loader_mutex \in {"free", Owner}
    /\ ShutdownReturn

\* the try block of the worker: put_image, when it is reached, takes the
\* cache's mutex and releases it before it returns
LockedWorkerBody(id) ==
    /\ (QSizeImported /\ Decode(tasks[id].image_path) # NullImage) => mutex = "free"
    /\ WorkerBody(id)

\* the finally block of the worker: with QMutexLocker(self.mutex):
FinallyLock(id) ==
    /\ tasks[id].step = "finally"
    /\ loader_mutex = "free"
    /\ loader_mutex' = WorkerName(id)
    /\ UNCHANGED <<files, cacheVars, now, ret, pc, frame, mutex, loaderVars, memVars>>

\* the finally block under the mutex
FinallyLocked(id) ==
    /\ loader_mutex = WorkerName(id)
    /\ WorkerFinally(id)

\* the QMutexLocker of the finally block goes out of scope
FinallyUnlock(id) ==
    /\ loader_mutex = WorkerName(id)
    /\ tasks[id].step = "done"
    /\ loader_mutex' = "free"
    /\ UNCHANGED <<files, cacheVars, now, ret, pc, frame, mutex, loaderVars, memVars>>

\* the steps of a call of the owner after its start
OwnerSteps ==
    \/ OwnerLock
    \/ LoadLocked
    \/ CacheLock
    \/ CacheLocked
    \/ CancelLoadLocked
    \/ CancelAllLocked
    \/ GetStatsLocked
    \/ ShutdownLocked
    \/ OwnerUnlock
    \/ LockedShutdownReturn

\* the steps of the worker threads
WorkerSteps ==
    \/ WorkerTake
    \/ \E id \in TaskIds : LockedWorkerBody(id)
    \/ \E id \in TaskIds : FinallyLock(id)
    \/ \E id \in TaskIds : FinallyLocked(id)
    \/ \E id \in TaskIds : FinallyUnlock(id)

NextLocks ==
    \/ \E op \in OwnerCalls, p \in LockPaths : CallLoader(op, p)
    \/ OwnerLock
    \/ LoadLocked
    \/ CacheLock
    \/ CacheLocked
    \/ CancelLoadLocked
    \/ CancelAllLocked
    \/ GetStatsLocked
    \/ ShutdownLocked
    \/ OwnerUnlock
    \/ LockedShutdownReturn
    \/ WorkerTake
    \/ \E id \in TaskIds : LockedWorkerBody(id)
    \/ \E id \in TaskIds : FinallyLock(id)
    \/ \E id \in TaskIds : FinallyLocked(id)
    \/ \E id \in TaskIds : FinallyUnlock(id)

SpecLocks == InitLocks /\ [][NextLocks]_vars

\* a thread that can take a step does: the owner inside a call, and the
\* worker threads
SpecLocksFair ==
    /\ InitLocks
    /\ [][NextLocks]_vars
    /\ WF_vars(OwnerSteps)
    /\ WF_vars(WorkerTake)
    /\ WF_vars(\E id \in TaskIds : LockedWorkerBody(id))
    /\ WF_vars(\E id \in TaskIds : FinallyLock(id))
    /\ WF_vars(\E id \in TaskIds : FinallyLocked(id))
    /\ WF_vars(\E id \in TaskIds : FinallyUnlock(id))

\* a thread is inside a call or a task, or a work item waits for a thread
InCall ==
    \/ pc[Owner] # "idle"
    \/ executor.waiting # "none"
    \/ Busy # {}
    \/ work_queue # <<>>
    \/ loader_mutex # "free"
    \/ mutex # "free"

\* the threads that can hold the loader's mutex
Holders == {Owner} \cup {WorkerName(id) : id \in 1..MaxTasks}

\* C39: the loader's mutex and the cache's mutex never deadlock: whenever a
\* thread is inside a call of load_image, cancel_load, cancel_all_loads,
\* get_stats or shutdown, or inside _load_image_worker, some thread can take
\* a step, and a mutex that a thread has acquired is eventually released.
C39_NoDeadlock ==
    /\ [](InCall => ENABLED (OwnerSteps \/ WorkerSteps))
    /\ \A h \in Holders : (loader_mutex = h) ~> (loader_mutex # h)
    /\ (mutex # "free") ~> (mutex = "free")

\* the owner holds both mutexes, inside get_image called by load_image, while
\* a worker waits in its finally block for the loader's mutex
C39_Witness ==
    /\ pc[Owner] = "cache_locked"
    /\ loader_mutex = Owner
    /\ mutex = Owner
    /\ \E id \in TaskIds : tasks[id].step = "finally"

(***************************************************************************)
(* What becomes of a load_image call that returned True, under             *)
(* SpecLoaderFair.                                                         *)
(***************************************************************************)
\* the callbacks invoked and the imageLoadFailed events emitted so far
Answers == CallbackCalls(tasks) + signals.imageLoadFailed

\* the last load_image call was answered True from the cache: get_image
\* returned the pair
HitReturned == load_ret = Bool(TRUE) /\ ret # None

\* the most answers a run of SpecLoader can give
MaxAnswers == MaxTasks + LoaderTime

\* C40: a load_image call that returned True with a callback, and was not
\* cancelled afterwards, is eventually followed by the invocation of the
\* callback or by an imageLoadFailed event for its path: this holds for the
\* task that the call created, and after a call that returned True without
\* creating a task a callback is invoked or a failure is emitted.
C40_AcceptedCallIsAnswered ==
    /\ \A id \in 1..MaxTasks :
           (id \in TaskIds /\ tasks[id].callback)
               ~> (id \in TaskIds /\ \/ tasks[id].callback_calls > 0
                                     \/ tasks[id].result = "failed"
                                     \/ tasks[id].cancel_called # "never")
    /\ \A k \in 0..MaxAnswers :
           (HitReturned /\ Answers = k) ~> (Answers > k)

=============================================================================
